---------------------------- MODULE Spec2Model ----------------------------
(***************************************************************************)
(* Controller node of a multi-zone pneumatic pressure-relief device.       *)
(*                                                                         *)
(* The components are modelled each with a specification of its own:       *)
(*   SpecSerial   SerialDevice / SerialTestDevice: the asyncio callers,    *)
(*                the reader thread and the device on the wire             *)
(*   SpecFacade   ServiceFacade: packet handling, dedup, shutdown          *)
(*   SpecExec     PatternExecutor: runs as asyncio tasks, stop, cancel     *)
(*   SpecChannel  MasterNodeClient: connection handlers, telemetry push    *)
(*   SpecPriority ZonePriorityService: one call of determine_zone_order    *)
(*                on every input of a bounded set                          *)
(*   SpecRelief   ZonePriorityService: one call of _calculate_relief_time  *)
(*   SpecZoneIds  the two users of zone numbers, ServiceFacade and         *)
(*                PatternExecutor, each on its own                         *)
(*   SpecOps      ServiceFacade with handle_control_signal, the status     *)
(*                snapshot and the sensor data loop next to the packets    *)
(*   SpecTelemetry the path of a telemetry value: reader thread, sensor    *)
(*                data loop, master connections, shutdown; with fairness   *)
(*   SpecShutdown shutdown() with a master that may leave its ACKs unread;  *)
(*                with fairness for the steps of shutdown()                *)
(*                                                                         *)
(* All coroutines run on one asyncio event loop thread: a coroutine runs   *)
(* from one suspension point (an await that really yields) to the next     *)
(* without interleaving.  The serial reader is a real thread.              *)
(***************************************************************************)
EXTENDS Integers, Sequences, FiniteSets, TLC

(***************************************************************************)
(* Bounds of the model                                                     *)
(***************************************************************************)
\* packets handled by the facade in SpecFacade
MaxPackets == 4
\* connections the master opens in SpecChannel
MaxConns == 3
\* execute_sequence calls in SpecExec
MaxRuns == 2
\* lines read from the device that are still queued (the queues are unbounded)
MaxPending == 2
\* reader threads alive at once (connect() is not called again beyond it): connect()
\* starts a thread whether or not an earlier one is still alive
MaxReaders == 2
\* lines the reader thread lost that are counted (it reads on after them)
MaxLost == 1
\* items of the pressure map of a determine_zone_order call in SpecPriority
MaxParts == 3
\* highest pressure handed to _calculate_relief_time in SpecRelief (0-100 in the code)
MaxPressure == 100
\* handle_control_signal calls in SpecOps
MaxSignals == 1
\* telemetry values the device publishes in SpecOps and SpecTelemetry
MaxTelemetry == 2
\* packets handled next to the other operations of the facade in SpecOps
MaxOpsPackets == 2
\* connections the master opens in SpecTelemetry and SpecShutdown
MaxPeers == 2

(***************************************************************************)
(* Program constants                                                       *)
(***************************************************************************)
\* DeviceZone has the members 1..4
NumZones == 4
Zones == 1..NumZones

\* Optional[T] is a set with at most one element
None == {}
Some(x) == {x}

VARIABLES
    \* ---- SerialDevice ----
    serial_connected,     \* self._connected
    serial_open,          \* self._serial is not None and self._serial.is_open
    zone_states,          \* self._zone_states
    last_command_success, \* self._last_command_success
    error_message,        \* self._error_message (Optional)
    response_queue,       \* self._response_queue
    queued_at_write,      \* how many responses the queue held when the send that now waits
                          \* wrote its command (0 while no send waits)
    log_queue,            \* self._log_queue
    sensor_data_queue,    \* self._sensor_data_queue
    stop_reader,          \* self._stop_reader (threading.Event)
    lines_lost,           \* lines the reader thread read and put on none of its queues
    reader_threads,       \* number of live threads running _reader_loop
    connect_pc,           \* "idle" | "settling": connect() asleep in its 2 s wait
    loop_owner,           \* coroutine blocking the event loop thread (Optional)
    send_pc,              \* per caller: "idle" | "waiting" (written, awaiting response)
    send_cmd,             \* per caller: the command or sequence of the send in flight
    last_call,            \* the serial call that returned last, with its result
    \* ---- ServiceFacade ----
    facade_pc,            \* "constructed" | "initializing" | "running" | "shutdown" | "stopped"
    shutdown_idx,         \* steps of shutdown() already taken
    shutdown_log,         \* calls made by shutdown(), in order
    air_activated,        \* self._air_activated
    last_zone_sequence,   \* self._last_zone_sequence (Optional)
    commands_executed,    \* self._commands_executed
    errors_count,         \* self._errors_count
    sensor_task,          \* self._sensor_send_task: "none" | "running" | "cancelled"
    display_started,      \* the display between start() and stop()
    m_running,            \* MasterNodeClient._running
    packets_handled,      \* handle_control_packet calls so far
    estop_calls,          \* calls of serial emergency_stop made by the facade
    seq_calls,            \* calls of serial send_sequence made by the facade
    h_last,               \* the last handled packet: its plan, whether it was sent, the result
    last_packet,          \* self._last_packet (Optional)
    h_cycle,              \* the last handled packet within the activation history
    \* ---- PatternExecutor ----
    ex_running,           \* self._running
    current_task,         \* self._current_task (Optional run)
    next_run,             \* the next execute_sequence call
    run_pc,               \* per run: "unused" | "created" | "stop_wait" | "hold" | "transition" | "done"
    run_rest,             \* per run: the zones still to do, the current one first (a local
                          \* of execute_sequence: empty once the run has returned)
    run_task,             \* per run: it is the Task made by start_background
    cancel_req,           \* per run: Task.cancel() was called and not yet delivered
    wait_for,             \* per run: the task its stop() awaits
    issued,               \* what the last step did, when it was a step of a run: the run,
                          \* the place in execute_sequence, the commands it issued and
                          \* what send_command returned for each (Optional)
    stop_pc,              \* the caller of stop(): "idle" | "waiting" | "returned"
    stop_target,          \* the task that stop() call awaits (Optional)
    stop_inflight,        \* the runs that were mid-sequence when stop() was called
    stop_estops,          \* emergency stops made by that stop() call
    \* ---- MasterNodeClient ----
    client_writer,        \* self._client_writer (Optional connection)
    client_reader,        \* self._client_reader (Optional connection)
    m_connected,          \* self._connected
    next_conn,            \* the next connection the server accepts
    conn_pc,              \* per connection, its _handle_connection: "none" | "closing" |
                          \* "reading" | "ended"
    reading_on,           \* per connection: the reader its read loop waits on (Optional)
    to_close,             \* per connection: the writer it found installed (Optional)
    writer_closed,        \* per connection: close() was called on its writer
    peer_closed,          \* per connection: the master closed its end
    out_pending,          \* the connections whose transport holds output the peer has not taken
    stop_wait,            \* the writer whose wait_closed() the stop() of the channel awaits (Optional)
    chan_op,              \* the last step of the channel and the peer it wrote to
    line_op,              \* the line the last step of a read loop handled: the connection
                          \* that read it, the handler calls and the peers sent an ACK
    \* ---- one call of ZonePriorityService.determine_zone_order ----
    arg_pressures,        \* pressures: the items of the dict in its iteration order
    arg_durations,        \* durations
    arg_forced_orders,    \* forced_orders (Optional list)
    zone_order,           \* the list the call returned (Optional)
    \* ---- one call of ZonePriorityService._calculate_relief_time ----
    rt_pressure,          \* pressure
    rt_duration,          \* duration
    rt_result,          \* the value the call returned (Optional)
    \* ---- the coordinator's other operations and the telemetry it forwards ----
    signals_handled,      \* handle_control_signal calls so far
    tele_next,            \* the number of the next telemetry value the reader publishes
    tele_ids,             \* the numbers of the values in _sensor_data_queue, in its order
    tele_dropped,         \* values get_sensor_data took from the queue and did not return
    pushes                \* the values pushed, each with the writers it was written to

serialVars == <<serial_connected, serial_open, zone_states, last_command_success,
                error_message, response_queue, queued_at_write, log_queue, sensor_data_queue,
                stop_reader, lines_lost, reader_threads, connect_pc,
                loop_owner, send_pc, send_cmd, last_call>>

facadeOwnVars == <<facade_pc, shutdown_idx, shutdown_log, air_activated, last_zone_sequence,
                   commands_executed, errors_count, sensor_task, display_started,
                   packets_handled, estop_calls, seq_calls, h_last, last_packet, h_cycle>>

facadeVars == <<facadeOwnVars, m_running>>

execVars == <<ex_running, current_task, next_run, run_pc, run_rest, run_task, cancel_req,
              wait_for, issued, stop_pc, stop_target,
              stop_inflight, stop_estops>>

channelVars == <<client_writer, client_reader, m_connected, next_conn, conn_pc, reading_on,
                 to_close, writer_closed, peer_closed, chan_op, line_op>>

closeVars == <<out_pending, stop_wait>>

priorityVars == <<arg_pressures, arg_durations, arg_forced_orders, zone_order,
                  rt_pressure, rt_duration, rt_result>>

coordVars == <<signals_handled, tele_next, tele_ids, tele_dropped, pushes>>

vars == <<serialVars, facadeVars, execVars, channelVars, priorityVars, coordVars, closeVars>>

\* what the steps of one component leave alone
nonSerialVars == <<facadeVars, execVars, channelVars, priorityVars, coordVars, closeVars>>
nonFacadeVars == <<execVars, channelVars, priorityVars, coordVars, closeVars>>
nonExecVars == <<facadeVars, channelVars, priorityVars, coordVars, closeVars>>
nonChannelVars == <<serialVars, facadeOwnVars, execVars, priorityVars, coordVars, closeVars>>
nonPriorityVars == <<serialVars, facadeVars, execVars, channelVars, coordVars, closeVars>>

(***************************************************************************)
(* ArduinoProtocol / TestSerialProtocol                                    *)
(*                                                                         *)
(* A line is the sequence of its tokens, so that the prefix tests of the   *)
(* code (startswith) are tests on the first token.                         *)
(***************************************************************************)
StartsWith(line, tok) == Len(line) >= 1 /\ line[1] = tok

\* decode_response of the stripped, non-empty line
decode_response(line) ==
    IF line = <<>> THEN [success |-> TRUE, message |-> <<>>, error |-> <<>>, is_log |-> FALSE]
    ELSE IF line = <<"OK">> THEN [success |-> TRUE, message |-> line, error |-> <<>>, is_log |-> FALSE]
    ELSE IF StartsWith(line, "ERR:") THEN [success |-> FALSE, message |-> <<>>, error |-> Tail(line), is_log |-> FALSE]
    ELSE [success |-> TRUE, message |-> line, error |-> <<>>, is_log |-> TRUE]

\* the lines the device emits in the model
DeviceLines ==
    { <<"OK">>, <<"ERR:", "busy">>, <<"ZONES:", "1", "2">>, <<"ZONES:">>,
      <<"boot">>,
      <<"{", "inflated_zones", "1", "2", "}">>,   \* {"inflated_zones": [1, 2]}
      <<"ZONES:", "x">> }                         \* a zone list with an item that is no number

\* int(z.strip()) of a ZONES item
ItemInts == [i \in {"1", "2", "3", "4"} |->
               CASE i = "1" -> 1 [] i = "2" -> 2 [] i = "3" -> 3 [] i = "4" -> 4]

ParseZones(items) == [k \in 1..Len(items) |-> ItemInts[items[k]]]

\* int() raises on an item that is no number
AllInts(items) == \A k \in 1..Len(items) : items[k] \in DOMAIN ItemInts

\* decoded.startswith("{") and "inflated_zones" in decoded
LooksLikeJsonTelemetry(line) ==
    StartsWith(line, "{") /\ \E k \in 1..Len(line) : line[k] = "inflated_zones"

\* json.loads accepts the line
JsonLoads(line) == Len(line) >= 3 /\ line[Len(line)] = "}"

\* sensor_json.get("inflated_zones", [])
JsonZones(line) == ParseZones(SubSeq(line, 3, Len(line) - 1))

\* mutant: the reader thread hands every line to the waiting send
Route_AllResponses(line) == "response"

\* where the reader thread puts a line: the telemetry queue, the log queue, the
\* response queue, or nowhere (the line raised and was only logged)
Route(line) ==
    IF LooksLikeJsonTelemetry(line) /\ JsonLoads(line) THEN "sensor"
    ELSE IF ~LooksLikeJsonTelemetry(line) /\ StartsWith(line, "ZONES:")
    THEN (IF AllInts(Tail(line)) THEN "sensor" ELSE "dropped")
    ELSE IF decode_response(line).is_log THEN "log"
    ELSE "response"

\* the telemetry value of a line routed to the telemetry queue
SensorDataOf(line) ==
    [inflated_zones |-> IF LooksLikeJsonTelemetry(line) THEN JsonZones(line)
                        ELSE ParseZones(Tail(line))]

\* the commands and sequences the callers send in the model
CommandZones == {1, 2}
Commands == [zone : CommandZones, action : {"inflate", "deflate"}]
ZoneSequences == { <<1, 2>>, <<>> }
Callers == {"facade", "executor"}

AllOff == [z \in Zones |-> 0]

is_connected == serial_connected /\ serial_open

(***************************************************************************)
(* SerialDevice state after __init__                                       *)
(***************************************************************************)
SerialInit ==
    /\ serial_connected = FALSE
    /\ serial_open = FALSE
    /\ zone_states = AllOff
    /\ last_command_success = TRUE
    /\ error_message = None
    /\ response_queue = <<>>
    /\ queued_at_write = 0
    /\ log_queue = <<>>
    /\ sensor_data_queue = <<>>
    /\ stop_reader = FALSE
    /\ lines_lost = 0
    /\ reader_threads = 0
    /\ connect_pc = "idle"
    /\ loop_owner = None
    /\ send_pc = [c \in Callers |-> "idle"]
    /\ send_cmd = [c \in Callers |-> <<>>]
    /\ last_call = [op |-> "none", outcome |-> "none", ret |-> FALSE]

(***************************************************************************)
(* serial.Serial(...) and the 2 s settle wait of connect()                 *)
(***************************************************************************)
ConnectOpen(ok) ==
    /\ loop_owner = None
    /\ connect_pc = "idle"
    /\ reader_threads < MaxReaders
    /\ IF ok
       THEN /\ serial_open' = TRUE
            /\ connect_pc' = "settling"
            /\ UNCHANGED <<serial_connected, error_message, last_call>>
       ELSE /\ error_message' = Some(<<"open failed">>)
            /\ serial_connected' = FALSE
            /\ last_call' = [op |-> "connect", outcome |-> "open_failed", ret |-> FALSE]
            /\ UNCHANGED <<serial_open, connect_pc>>
    /\ UNCHANGED <<zone_states, last_command_success, response_queue, queued_at_write, log_queue,
                   sensor_data_queue, stop_reader, lines_lost, reader_threads, loop_owner,
                   send_pc, send_cmd>>

\* after the sleep: clear the stop event, start one reader thread, mark connected
ConnectFinish ==
    /\ loop_owner = None
    /\ connect_pc = "settling"
    /\ connect_pc' = "idle"
    /\ stop_reader' = FALSE
    /\ UNCHANGED lines_lost
    /\ reader_threads' = reader_threads + 1
    /\ serial_connected' = TRUE
    /\ last_call' = [op |-> "connect", outcome |-> "ok", ret |-> TRUE]
    /\ UNCHANGED <<serial_open, zone_states, last_command_success, error_message,
                   response_queue, queued_at_write, log_queue, sensor_data_queue, loop_owner, send_pc, send_cmd>>

\* disconnect(): set the stop event, join the reader for at most 2 s, close
Disconnect ==
    /\ loop_owner = None
    /\ connect_pc = "idle"
    /\ stop_reader' = TRUE
    /\ UNCHANGED lines_lost
    /\ serial_open' = FALSE
    /\ serial_connected' = FALSE
    /\ last_call' = [op |-> "disconnect", outcome |-> "ok", ret |-> TRUE]
    /\ UNCHANGED <<zone_states, last_command_success, error_message, response_queue, queued_at_write,
                   log_queue, sensor_data_queue, reader_threads, connect_pc, loop_owner, send_pc, send_cmd>>

(***************************************************************************)
(* The reader thread                                                       *)
(***************************************************************************)
\* one pass of _reader_loop: readline() returns a non-empty line of the device
ReaderStep(line) ==
    /\ reader_threads > 0
    /\ ~stop_reader
    /\ serial_open
    /\ Len(response_queue) + Len(log_queue) + Len(sensor_data_queue) < MaxPending
    /\ Route(line) = "dropped" => lines_lost < MaxLost
    /\ LET result == decode_response(line)
           to == Route(line)
       IN  /\ lines_lost' = IF to = "dropped" THEN lines_lost + 1 ELSE lines_lost
           /\ sensor_data_queue' = IF to = "sensor"
                                   THEN Append(sensor_data_queue, SensorDataOf(line))
                                   ELSE sensor_data_queue
           /\ log_queue' = IF to = "log" THEN Append(log_queue, line) ELSE log_queue
           /\ response_queue' = IF to = "response" THEN Append(response_queue, result)
                                ELSE response_queue
    /\ UNCHANGED <<serial_connected, serial_open, zone_states, last_command_success,
                   error_message, stop_reader, reader_threads, connect_pc,
                   loop_owner, send_pc, send_cmd, last_call, queued_at_write>>

\* readline raises SerialException: the thread sets the stop event and ends
ReaderError ==
    /\ reader_threads > 0
    /\ ~stop_reader
    /\ serial_open
    /\ stop_reader' = TRUE
    /\ UNCHANGED lines_lost
    /\ reader_threads' = reader_threads - 1
    /\ UNCHANGED <<serial_connected, serial_open, zone_states, last_command_success,
                   error_message, response_queue, queued_at_write, log_queue, sensor_data_queue, connect_pc, loop_owner, send_pc, send_cmd, last_call>>

\* a thread finds the stop event set at the top of its loop and ends
ReaderExit ==
    /\ reader_threads > 0
    /\ stop_reader
    /\ reader_threads' = reader_threads - 1
    /\ UNCHANGED <<serial_connected, serial_open, zone_states, last_command_success,
                   error_message, response_queue, queued_at_write, log_queue, sensor_data_queue,
                   stop_reader, lines_lost, connect_pc, loop_owner, send_pc,
                   send_cmd, last_call>>

(***************************************************************************)
(* send_command / send_sequence                                            *)
(***************************************************************************)
CmdSend(cmd) == [kind |-> "send_command", zone |-> cmd.zone, action |-> cmd.action, zones |-> <<>>]
SeqSend(zs) == [kind |-> "send_sequence", zone |-> 0, action |-> "none", zones |-> zs]
Sends == {CmdSend(cmd) : cmd \in Commands} \cup {SeqSend(zs) : zs \in ZoneSequences}

\* the zone-state update of a command taken as executed
ApplyCommand(zs, snd) ==
    IF snd.kind = "send_command" /\ snd.action = "inflate" THEN [zs EXCEPT ![snd.zone] = 1]
    ELSE IF snd.kind = "send_command" /\ snd.action = "deflate" THEN [zs EXCEPT ![snd.zone] = 0]
    ELSE zs

\* mutant: the wait for the response yields to the event loop
LoopAfterWrite_Yields(c) == None

\* who holds the event loop thread while a send waits for its response:
\* Queue.get(timeout=2.0) blocks the thread, the coroutine does not yield
LoopAfterWrite(c) == Some(c)

\* mutant: an empty zone list is sent like any other
EmptySequence_Never(snd) == FALSE

\* send_sequence: "if not zones"
EmptySequence(snd) == snd.kind = "send_sequence" /\ snd.zones = <<>>

\* the part of a send before the wait: connection guard, empty-sequence guard, write
SendStart(c, snd, writeOk) ==
    /\ loop_owner = None
    /\ send_pc[c] = "idle"
    /\ IF ~is_connected
       THEN /\ last_call' = [op |-> snd.kind, outcome |-> "not_connected", ret |-> FALSE]
            /\ UNCHANGED <<error_message, last_command_success, send_pc, send_cmd, loop_owner>>
       ELSE IF EmptySequence(snd)
       THEN /\ last_call' = [op |-> snd.kind, outcome |-> "empty", ret |-> FALSE]
            /\ UNCHANGED <<error_message, last_command_success, send_pc, send_cmd, loop_owner>>
       ELSE IF ~writeOk
       THEN /\ error_message' = Some(<<"write failed">>)
            /\ last_command_success' = FALSE
            /\ last_call' = [op |-> snd.kind, outcome |-> "write_failed", ret |-> FALSE]
            /\ UNCHANGED <<send_pc, send_cmd, loop_owner>>
       ELSE /\ send_pc' = [send_pc EXCEPT ![c] = "waiting"]
            /\ send_cmd' = [send_cmd EXCEPT ![c] = snd]
            /\ loop_owner' = LoopAfterWrite(c)
            /\ UNCHANGED <<error_message, last_command_success, last_call>>
    /\ queued_at_write' = IF send_pc'[c] = "waiting" THEN Len(response_queue) ELSE queued_at_write
    /\ UNCHANGED <<serial_connected, serial_open, zone_states, response_queue, log_queue,
                   sensor_data_queue, stop_reader, lines_lost, reader_threads, connect_pc>>

\* mutant: a rejected command is applied to the tracked zone state all the same
ZonesAfterError_Applied(zs, snd) == ApplyCommand(zs, snd)

\* the tracked zone state after a response that reports a failure
ZonesAfterError(zs, snd) == zs

\* a response is taken from the response queue within the timeout
SendResponse(c) ==
    /\ send_pc[c] = "waiting"
    /\ response_queue # <<>>
    /\ LET response == Head(response_queue)
           snd == send_cmd[c]
       IN  /\ response_queue' = Tail(response_queue)
           /\ IF response.success
              THEN /\ zone_states' = ApplyCommand(zone_states, snd)
                   /\ last_command_success' = TRUE
                   /\ last_call' = [op |-> snd.kind, outcome |-> "ok", ret |-> TRUE]
                   /\ UNCHANGED error_message
              ELSE /\ error_message' = Some(response.error)
                   /\ last_command_success' = FALSE
                   /\ last_call' = [op |-> snd.kind, outcome |-> "err", ret |-> FALSE]
                   /\ zone_states' = ZonesAfterError(zone_states, snd)
    /\ send_pc' = [send_pc EXCEPT ![c] = "idle"]
    /\ send_cmd' = [send_cmd EXCEPT ![c] = <<>>]
    /\ loop_owner' = None
    /\ queued_at_write' = 0
    /\ UNCHANGED <<serial_connected, serial_open, log_queue, sensor_data_queue,
                   stop_reader, lines_lost, reader_threads, connect_pc>>

\* mutant: a send without response is a failure and leaves the zone state alone
TimeoutResult_Fails(zs, snd) == [zones |-> zs, success |-> FALSE]

\* the result of a send whose wait ended with queue.Empty
TimeoutResult(zs, snd) == [zones |-> ApplyCommand(zs, snd), success |-> TRUE]

\* no response within 2 s
SendTimeout(c) ==
    /\ send_pc[c] = "waiting"
    /\ response_queue = <<>>
    /\ LET snd == send_cmd[c]
           res == TimeoutResult(zone_states, snd)
       IN  /\ zone_states' = res.zones
           /\ last_command_success' = res.success
           /\ last_call' = [op |-> snd.kind, outcome |-> "timeout", ret |-> res.success]
    /\ send_pc' = [send_pc EXCEPT ![c] = "idle"]
    /\ send_cmd' = [send_cmd EXCEPT ![c] = <<>>]
    /\ loop_owner' = None
    /\ queued_at_write' = 0
    /\ UNCHANGED <<serial_connected, serial_open, error_message, response_queue, log_queue,
                   sensor_data_queue, stop_reader, lines_lost, reader_threads, connect_pc>>

(***************************************************************************)
(* emergency_stop                                                          *)
(***************************************************************************)
\* zone states and return value of emergency_stop
EmergencyStopResult(zs, conn, writeOk) ==
    IF ~conn THEN [zones |-> zs, ret |-> FALSE, outcome |-> "not_connected"]
    ELSE IF writeOk THEN [zones |-> AllOff, ret |-> TRUE, outcome |-> "ok"]
    ELSE [zones |-> zs, ret |-> FALSE, outcome |-> "write_failed"]

EmergencyStop(c, writeOk) ==
    /\ loop_owner = None
    /\ send_pc[c] = "idle"
    /\ LET res == EmergencyStopResult(zone_states, is_connected, writeOk)
       IN  /\ zone_states' = res.zones
           /\ last_call' = [op |-> "emergency_stop", outcome |-> res.outcome, ret |-> res.ret]
    /\ UNCHANGED <<serial_connected, serial_open, last_command_success, error_message,
                   response_queue, queued_at_write, log_queue, sensor_data_queue, stop_reader, lines_lost,
                   reader_threads, connect_pc, loop_owner, send_pc, send_cmd>>

(***************************************************************************)
(* get_sensor_data / get_recent_logs                                       *)
(***************************************************************************)
\* mutant: the oldest buffered value is returned
LatestData_Oldest(q) == IF q = <<>> THEN None ELSE Some(q[1])

\* latest_data after the drain loop: the last value taken, None from an empty queue
LatestData(q) == IF q = <<>> THEN None ELSE Some(q[Len(q)])

\* mutant: get_sensor_data leaves the values in the queue
Drained_Keeps(q) == q

\* the queue after the drain loop of get_sensor_data
Drained(q) == <<>>

\* drains the telemetry queue and returns its last element
GetSensorData ==
    /\ loop_owner = None
    /\ last_call' = [op |-> "get_sensor_data", outcome |-> "ok",
                     ret |-> LatestData(sensor_data_queue)]
    /\ sensor_data_queue' = Drained(sensor_data_queue)
    /\ UNCHANGED <<serial_connected, serial_open, zone_states, last_command_success,
                   error_message, response_queue, queued_at_write, log_queue, stop_reader, lines_lost, reader_threads,
                   connect_pc, loop_owner, send_pc, send_cmd>>

\* has_sensor_data(): whether the telemetry queue holds a value
HasSensorData ==
    /\ loop_owner = None
    /\ last_call' = [op |-> "has_sensor_data", outcome |-> "ok",
                     ret |-> (sensor_data_queue # <<>>)]
    /\ UNCHANGED <<serial_connected, serial_open, zone_states, last_command_success,
                   error_message, response_queue, queued_at_write, log_queue, sensor_data_queue, stop_reader, lines_lost,
                   reader_threads, connect_pc, loop_owner, send_pc, send_cmd>>

\* get_recent_logs(max_count=10) drains up to max_count buffered lines
GetRecentLogs ==
    /\ loop_owner = None
    /\ log_queue # <<>>
    /\ last_call' = [op |-> "get_recent_logs", outcome |-> "ok", ret |-> log_queue]
    /\ log_queue' = <<>>
    /\ UNCHANGED <<serial_connected, serial_open, zone_states, last_command_success,
                   error_message, response_queue, queued_at_write, sensor_data_queue, stop_reader, lines_lost,
                   reader_threads, connect_pc, loop_owner, send_pc, send_cmd>>

SerialNext ==
    \/ \E ok \in BOOLEAN : ConnectOpen(ok) /\ UNCHANGED nonSerialVars
    \/ ConnectFinish /\ UNCHANGED nonSerialVars
    \/ Disconnect /\ UNCHANGED nonSerialVars
    \/ \E line \in DeviceLines : ReaderStep(line) /\ UNCHANGED nonSerialVars
    \/ ReaderError /\ UNCHANGED nonSerialVars
    \/ ReaderExit /\ UNCHANGED nonSerialVars
    \/ \E c \in Callers, snd \in Sends, writeOk \in BOOLEAN :
          SendStart(c, snd, writeOk) /\ UNCHANGED nonSerialVars
    \/ \E c \in Callers : SendResponse(c) /\ UNCHANGED nonSerialVars
    \/ \E c \in Callers : SendTimeout(c) /\ UNCHANGED nonSerialVars
    \/ \E c \in Callers, writeOk \in BOOLEAN :
          EmergencyStop(c, writeOk) /\ UNCHANGED nonSerialVars
    \/ GetSensorData /\ UNCHANGED nonSerialVars
    \/ HasSensorData /\ UNCHANGED nonSerialVars
    \/ GetRecentLogs /\ UNCHANGED nonSerialVars



(***************************************************************************)
(* ZonePriorityService                                                     *)
(*                                                                         *)
(* A pressures dict is the sequence of its items in iteration order; a     *)
(* durations dict is a function on its keys.                               *)
(***************************************************************************)
BODY_PART_TO_ZONE ==
    [bp \in {"occiput", "scapula", "right_elbow", "left_elbow", "sacrum",
             "right_heel", "left_heel"} |->
        CASE bp = "occiput" -> 1
          [] bp = "scapula" -> 1
          [] bp = "right_elbow" -> 2
          [] bp = "left_elbow" -> 2
          [] bp = "sacrum" -> 3
          [] bp = "right_heel" -> 4
          [] bp = "left_heel" -> 4]

BASE_RELIEF_TIME == 5
HIGH_PRESSURE_THRESHOLD == 80
MEDIUM_PRESSURE_THRESHOLD == 50
LONG_DURATION_THRESHOLD == 300

\* dict.get(key, default)
DictGet(d, key, default) == IF key \in DOMAIN d THEN d[key] ELSE default

\* score = pressure + (duration / 60) * 10, kept as 6 * score to stay in the integers
Score6(pressure, duration) == 6 * pressure + duration

\* mutant: the two pressure steps add up
_calculate_relief_time_Cumulative(pressure, duration) ==
    BASE_RELIEF_TIME
    + (IF pressure > HIGH_PRESSURE_THRESHOLD THEN 10 ELSE 0)
    + (IF pressure > MEDIUM_PRESSURE_THRESHOLD THEN 5 ELSE 0)
    + (IF duration > LONG_DURATION_THRESHOLD THEN 5 ELSE 0)

_calculate_relief_time(pressure, duration) ==
    BASE_RELIEF_TIME
    + (IF pressure > HIGH_PRESSURE_THRESHOLD THEN 10
       ELSE IF pressure > MEDIUM_PRESSURE_THRESHOLD THEN 5 ELSE 0)
    + (IF duration > LONG_DURATION_THRESHOLD THEN 5 ELSE 0)

\* index of the entry of zone z in a list of per-zone entries, 0 if absent
IndexOfZone(entries, z) ==
    IF \E k \in 1..Len(entries) : entries[k].zone = z
    THEN CHOOSE k \in 1..Len(entries) : entries[k].zone = z
    ELSE 0

\* a reading the loop passes over and keeps
SkipsReading_KeepsZero(item) == item.part \notin DOMAIN BODY_PART_TO_ZONE

\* the two `continue` tests of the loop: a part without a zone, a pressure that is not above 0
SkipsReading(item) == item.part \notin DOMAIN BODY_PART_TO_ZONE \/ item.pressure <= 0

\* the loop that fills zone_scores: entries stay in the order their zone was first inserted
RECURSIVE ZoneScores(_, _, _)
ZoneScores(pressures, durations, acc) ==
    IF pressures = <<>> THEN acc
    ELSE LET item == Head(pressures)
             rest == Tail(pressures)
         IN  IF SkipsReading(item)
             THEN ZoneScores(rest, durations, acc)
             ELSE LET zone == BODY_PART_TO_ZONE[item.part]
                      duration == DictGet(durations, item.part, 0)
                      entry == [zone |-> zone, score6 |-> Score6(item.pressure, duration),
                                pressure |-> item.pressure, duration |-> duration]
                      k == IndexOfZone(acc, zone)
                  IN  IF k = 0 THEN ZoneScores(rest, durations, Append(acc, entry))
                      ELSE IF entry.score6 > acc[k].score6
                      THEN ZoneScores(rest, durations, [acc EXCEPT ![k] = entry])
                      ELSE ZoneScores(rest, durations, acc)

\* sorted(..., key=score, reverse=True): stable, equal scores keep their order
RECURSIVE InsertByScore(_, _)
InsertByScore(sorted, e) ==
    IF sorted = <<>> THEN <<e>>
    ELSE IF Head(sorted).score6 >= e.score6
         THEN <<Head(sorted)>> \o InsertByScore(Tail(sorted), e)
         ELSE <<e>> \o sorted

RECURSIVE SortByScore(_)
SortByScore(entries) ==
    IF entries = <<>> THEN <<>>
    ELSE InsertByScore(SortByScore(SubSeq(entries, 1, Len(entries) - 1)),
                       entries[Len(entries)])

\* the loop that fills zone_data of _apply_forced_order: highest pressure per zone
RECURSIVE ZoneData(_, _, _)
ZoneData(pressures, durations, acc) ==
    IF pressures = <<>> THEN acc
    ELSE LET item == Head(pressures)
             rest == Tail(pressures)
         IN  IF item.part \notin DOMAIN BODY_PART_TO_ZONE
             THEN ZoneData(rest, durations, acc)
             ELSE LET zone == BODY_PART_TO_ZONE[item.part]
                      entry == [zone |-> zone, pressure |-> item.pressure,
                                duration |-> DictGet(durations, item.part, 0)]
                      k == IndexOfZone(acc, zone)
                  IN  IF k = 0 THEN ZoneData(rest, durations, Append(acc, entry))
                      ELSE IF entry.pressure > acc[k].pressure
                      THEN ZoneData(rest, durations, [acc EXCEPT ![k] = entry])
                      ELSE ZoneData(rest, durations, acc)

\* mutant: every forced zone number is taken as it comes
InvalidZone_Never(zone_num) == FALSE

\* "if zone_num < 1 or zone_num > 4": the forced zone number is skipped
InvalidZone(zone_num) == zone_num < 1 \/ zone_num > 4

RECURSIVE ForcedEntries(_, _)
ForcedEntries(forced_orders, zone_data) ==
    IF forced_orders = <<>> THEN <<>>
    ELSE LET zone_num == Head(forced_orders)
             k == IndexOfZone(zone_data, zone_num)
             relief_time == IF k # 0
                            THEN _calculate_relief_time(zone_data[k].pressure, zone_data[k].duration)
                            ELSE BASE_RELIEF_TIME
         IN  IF InvalidZone(zone_num)
             THEN ForcedEntries(Tail(forced_orders), zone_data)
             ELSE <<[zone |-> zone_num, relief |-> relief_time]>>
                  \o ForcedEntries(Tail(forced_orders), zone_data)

_apply_forced_order(forced_orders, pressures, durations) ==
    ForcedEntries(forced_orders, ZoneData(pressures, durations, <<>>))

\* forced_orders is Optional: None, or Some(list); an empty list is falsy
determine_zone_order(pressures, durations, forced_orders) ==
    IF forced_orders # None /\ (CHOOSE f \in forced_orders : TRUE) # <<>>
    THEN _apply_forced_order(CHOOSE f \in forced_orders : TRUE, pressures, durations)
    ELSE LET sorted_zones == SortByScore(ZoneScores(pressures, durations, <<>>))
         IN  [k \in 1..Len(sorted_zones) |->
                 [zone |-> sorted_zones[k].zone,
                  relief |-> _calculate_relief_time(sorted_zones[k].pressure,
                                                    sorted_zones[k].duration)]]

\* zone_numbers = [z[0] for z in zone_sequence]
ZoneNumbers(zone_sequence) == [k \in 1..Len(zone_sequence) |-> zone_sequence[k].zone]

(***************************************************************************)
(* ServiceFacade                                                           *)
(***************************************************************************)
NoPlan == [plan |-> None, sent |-> FALSE, ok |-> FALSE]

\* h_cycle before the first packet.  branch: the path the handler took;
\* deactivated: some packet has turned activation off; prior: the dedup memory
\* when activation was turned off last; fresh: activation was turned on again
\* and no packet since has had a non-empty plan; first: this packet is the first
\* with a non-empty plan since activation was turned on again; retry: this
\* packet has the plan of the packet before it, whose send_sequence failed
NoCycle == [branch |-> "none", deactivated |-> FALSE, prior |-> None, fresh |-> FALSE,
            first |-> FALSE, retry |-> FALSE]

FacadeInit ==
    /\ facade_pc = "constructed"
    /\ shutdown_idx = 0
    /\ shutdown_log = <<>>
    /\ air_activated = FALSE
    /\ last_zone_sequence = None
    /\ commands_executed = 0
    /\ errors_count = 0
    /\ sensor_task = "none"
    /\ display_started = FALSE
    /\ m_running = FALSE
    /\ packets_handled = 0
    /\ estop_calls = 0
    /\ seq_calls = 0
    /\ h_last = NoPlan
    /\ last_packet = None
    /\ h_cycle = NoCycle

\* the packets the master sends in the model
PressuresA == << [part |-> "occiput", pressure |-> 85], [part |-> "sacrum", pressure |-> 40] >>
PressuresC == << [part |-> "sacrum", pressure |-> 90], [part |-> "occiput", pressure |-> 40] >>
DurationsLong == [bp \in {"occiput", "sacrum"} |-> IF bp = "occiput" THEN 310 ELSE 0]
DurationsNone == [bp \in {} |-> 0]

PacketBodies ==
    { [pressures |-> PressuresA, durations |-> DurationsLong, orders |-> None],
      [pressures |-> PressuresA, durations |-> DurationsNone, orders |-> None],
      [pressures |-> PressuresC, durations |-> DurationsNone, orders |-> None],
      [pressures |-> <<>>, durations |-> DurationsNone, orders |-> None],
      [pressures |-> PressuresA, durations |-> DurationsLong, orders |-> Some(<<3, 1>>)],
      [pressures |-> PressuresA, durations |-> DurationsNone, orders |-> Some(<<5, 2>>)] }

Packets ==
    { [pressures |-> b.pressures, durations |-> b.durations, orders |-> b.orders,
       activate_air |-> a] : b \in PacketBodies, a \in BOOLEAN }

\* mutant: the telemetry loop is started only when connect() returned True
TaskAfterInitialize_NeedsSerial(connected) == IF connected THEN "running" ELSE "none"

\* create_task(self._sensor_data_loop()) follows both branches of `if await connect()`
TaskAfterInitialize(connected) == "running"

\* initialize() up to the settle wait of connect(): handlers set, listener started,
\* serial port opened; a failed open lets initialize() run to its end at once
InitializeStart(ok) ==
    /\ facade_pc = "constructed"
    /\ ConnectOpen(ok)
    /\ m_running' = TRUE
    /\ IF ok
       THEN /\ facade_pc' = "initializing"
            /\ UNCHANGED <<display_started, sensor_task>>
       ELSE /\ facade_pc' = "running"
            /\ display_started' = TRUE
            /\ sensor_task' = TaskAfterInitialize(FALSE)
    /\ UNCHANGED <<shutdown_idx, shutdown_log, air_activated, last_zone_sequence,
                   commands_executed, errors_count, packets_handled, estop_calls,
                   seq_calls, h_last, last_packet, h_cycle>>

\* initialize() after connect() returned True: display and telemetry loop started
InitializeFinish ==
    /\ facade_pc = "initializing"
    /\ ConnectFinish
    /\ facade_pc' = "running"
    /\ display_started' = TRUE
    /\ sensor_task' = TaskAfterInitialize(TRUE)
    /\ UNCHANGED <<shutdown_idx, shutdown_log, air_activated, last_zone_sequence,
                   commands_executed, errors_count, m_running, packets_handled,
                   estop_calls, seq_calls, h_last, last_packet, h_cycle>>

\* mutant: every packet is taken for a change of activation
ActivationChanged_Always(activate_air, current) == TRUE

\* mutant: no packet is taken for a change of activation
ActivationChanged_Never(activate_air, current) == FALSE

\* the packet's activation flag differs from the tracked state
ActivationChanged(activate_air, current) == activate_air # current

\* mutant: a packet that leaves the air cells inactive still goes on to the plan
SkipsPlan_Never(activate_air) == FALSE

\* without activation the handler returns before any plan is computed
SkipsPlan(activate_air) == ~activate_air

\* mutant: a change of activation keeps the dedup memory
ClearedSequence_Kept(last) == last

\* self._last_zone_sequence = None, on either change of activation
ClearedSequence(last) == None

\* mutant: an order is remembered whether or not it was sent with success
RecordedSequence_Always(zone_numbers, success, last) == Some(zone_numbers)

\* mutant: a sent order is not remembered
RecordedSequence_Forgets(zone_numbers, success, last) == last

\* the dedup memory after send_sequence returned
RecordedSequence(zone_numbers, success, last) ==
    IF success THEN Some(zone_numbers) ELSE last

\* send_sequence as the facade sees it: the call blocks the event loop until the
\* response (resp: "ok", "err") or the timeout (resp: "timeout")
SendSequenceOutcome(zones, conn, writeOk, resp) ==
    IF ~conn THEN "not_connected"
    ELSE IF zones = <<>> THEN "empty"
    ELSE IF ~writeOk THEN "write_failed"
    ELSE resp

SendSequenceCall(zones, writeOk, resp) ==
    LET outcome == SendSequenceOutcome(zones, is_connected, writeOk, resp)
        ret == outcome \in {"ok", "timeout"}
    IN  /\ loop_owner = None
        /\ last_call' = [op |-> "send_sequence", outcome |-> outcome, ret |-> ret]
        /\ error_message' = IF outcome = "write_failed" THEN Some(<<"write failed">>)
                            ELSE IF outcome = "err" THEN Some(<<"busy">>)
                            ELSE error_message
        /\ last_command_success' = IF outcome \in {"ok", "timeout"} THEN TRUE
                                   ELSE IF outcome \in {"err", "write_failed"} THEN FALSE
                                   ELSE last_command_success
        /\ UNCHANGED <<serial_connected, serial_open, zone_states, response_queue, queued_at_write,
                       log_queue, sensor_data_queue, stop_reader, lines_lost, reader_threads,
                       connect_pc, loop_owner, send_pc, send_cmd>>

\* shutdown() is between two calls with no suspension point in between: no other
\* coroutine of the event loop runs there
ShutdownHoldsLoop == facade_pc = "shutdown" /\ shutdown_idx \in {1, 3, 4}

handle_control_packet(packet, estopWriteOk, writeOk, resp) ==
    LET changed == ActivationChanged(packet.activate_air, air_activated)
        branch == IF changed /\ ~packet.activate_air THEN "deactivate"
                  ELSE IF SkipsPlan(packet.activate_air) THEN "idle"
                  ELSE IF changed THEN "activate"
                  ELSE "active"
        forced_orders == packet.orders
        zone_sequence == determine_zone_order(packet.pressures, packet.durations, forced_orders)
        zone_numbers == ZoneNumbers(zone_sequence)
        last == IF branch = "activate" THEN ClearedSequence(last_zone_sequence)
                ELSE last_zone_sequence
        fresh == (branch = "activate" /\ h_cycle.deactivated) \/ h_cycle.fresh
        retry == h_last.sent /\ ~h_last.ok /\ h_last.plan = Some(zone_numbers)
    IN  /\ m_running
        /\ ~ShutdownHoldsLoop
        /\ packets_handled < MaxPackets
        /\ packets_handled' = packets_handled + 1
        /\ last_packet' = Some(packet)
        /\ CASE branch = "deactivate" ->
                  /\ EmergencyStop("facade", estopWriteOk)
                  /\ estop_calls' = estop_calls + 1
                  /\ air_activated' = FALSE
                  /\ last_zone_sequence' = ClearedSequence(last_zone_sequence)
                  /\ h_last' = NoPlan
                  /\ h_cycle' = [branch |-> branch, deactivated |-> TRUE,
                                 prior |-> last_zone_sequence, fresh |-> FALSE,
                                 first |-> FALSE, retry |-> FALSE]
                  /\ UNCHANGED <<commands_executed, errors_count, seq_calls>>
             [] branch = "idle" ->
                  /\ h_last' = NoPlan
                  /\ h_cycle' = [h_cycle EXCEPT !.branch = branch, !.first = FALSE,
                                                !.retry = FALSE]
                  /\ UNCHANGED <<air_activated, last_zone_sequence, commands_executed,
                                 errors_count, seq_calls, estop_calls>>
                  /\ UNCHANGED serialVars
             [] OTHER ->
                  /\ air_activated' = IF changed THEN packet.activate_air ELSE air_activated
                  /\ UNCHANGED estop_calls
                  /\ h_cycle' = [h_cycle EXCEPT !.branch = branch,
                                                !.fresh = fresh /\ zone_sequence = <<>>,
                                                !.first = fresh /\ zone_sequence # <<>>,
                                                !.retry = retry]
                  /\ IF zone_sequence = <<>> \/ Some(zone_numbers) = last
                     THEN /\ last_zone_sequence' = last
                          /\ h_last' = [plan |-> Some(zone_numbers), sent |-> FALSE, ok |-> FALSE]
                          /\ UNCHANGED <<commands_executed, errors_count, seq_calls>>
                          /\ UNCHANGED serialVars
                     ELSE /\ SendSequenceCall(zone_numbers, writeOk, resp)
                          /\ seq_calls' = seq_calls + 1
                          /\ LET success == last_call'.ret
                             IN  /\ last_zone_sequence' = RecordedSequence(zone_numbers, success, last)
                                 /\ commands_executed' = IF success THEN commands_executed + 1
                                                         ELSE commands_executed
                                 /\ errors_count' = IF success THEN errors_count
                                                    ELSE errors_count + 1
                                 /\ h_last' = [plan |-> Some(zone_numbers), sent |-> TRUE,
                                               ok |-> success]
        /\ UNCHANGED <<facade_pc, shutdown_idx, shutdown_log, sensor_task, display_started,
                       m_running>>

\* mutant: the listener is stopped before the serial link is disconnected
ShutdownSteps_ChannelFirst ==
    << "serial.emergency_stop", "sensor_task.cancel", "display.stop",
       "master.stop", "serial.disconnect" >>

\* the calls shutdown() makes, in order
ShutdownSteps ==
    << "serial.emergency_stop", "sensor_task.cancel", "display.stop",
       "serial.disconnect", "master.stop" >>

\* shutdown() makes its next call
ShutdownStep(estopWriteOk) ==
    /\ facade_pc \in {"running", "shutdown"}
    /\ shutdown_idx < Len(ShutdownSteps)
    /\ LET step == ShutdownSteps[shutdown_idx + 1]
       IN  /\ shutdown_idx' = shutdown_idx + 1
           /\ shutdown_log' = Append(shutdown_log, step)
           /\ facade_pc' = IF shutdown_idx + 1 = Len(ShutdownSteps) THEN "stopped" ELSE "shutdown"
           /\ CASE step = "serial.emergency_stop" ->
                     /\ EmergencyStop("facade", estopWriteOk)
                     /\ estop_calls' = estop_calls + 1
                     /\ UNCHANGED <<sensor_task, display_started, m_running>>
                [] step = "sensor_task.cancel" ->
                     /\ sensor_task' = IF sensor_task = "running" THEN "cancelled" ELSE sensor_task
                     /\ UNCHANGED <<display_started, m_running, estop_calls>>
                     /\ UNCHANGED serialVars
                [] step = "display.stop" ->
                     /\ display_started' = FALSE
                     /\ UNCHANGED <<sensor_task, m_running, estop_calls>>
                     /\ UNCHANGED serialVars
                [] step = "serial.disconnect" ->
                     /\ Disconnect
                     /\ UNCHANGED <<sensor_task, display_started, m_running, estop_calls>>
                [] step = "master.stop" ->
                     /\ m_running' = FALSE
                     /\ UNCHANGED <<sensor_task, display_started, estop_calls>>
                     /\ UNCHANGED serialVars
    /\ UNCHANGED <<air_activated, last_zone_sequence, commands_executed, errors_count,
                   packets_handled, seq_calls, h_last, last_packet, h_cycle>>

FacadeNext ==
    \/ \E ok \in BOOLEAN : InitializeStart(ok) /\ UNCHANGED nonFacadeVars
    \/ InitializeFinish /\ UNCHANGED nonFacadeVars
    \/ \E packet \in Packets, estopWriteOk \in BOOLEAN, writeOk \in BOOLEAN,
          resp \in {"ok", "err", "timeout"} :
          handle_control_packet(packet, estopWriteOk, writeOk, resp) /\ UNCHANGED nonFacadeVars
    \/ \E estopWriteOk \in BOOLEAN : ShutdownStep(estopWriteOk) /\ UNCHANGED nonFacadeVars


(***************************************************************************)
(* PatternExecutor                                                         *)
(***************************************************************************)
Runs == 1..MaxRuns

\* the sequences callers pass to execute_sequence; zone 9 is no DeviceZone
ExecSequences == { <<1, 2>>, <<9, 3>>, <<>> }

ExecInit ==
    /\ ex_running = FALSE
    /\ current_task = None
    /\ next_run = 1
    /\ run_pc = [r \in Runs |-> "unused"]
    /\ run_rest = [r \in Runs |-> <<>>]
    /\ run_task = [r \in Runs |-> FALSE]
    /\ cancel_req = [r \in Runs |-> FALSE]
    /\ wait_for = [r \in Runs |-> None]
    /\ issued = None
    /\ stop_pc = "idle"
    /\ stop_target = None
    /\ stop_inflight = {}
    /\ stop_estops = 0

\* what one send_command call can end with, seen from the caller
SendOutcomes ==
    IF is_connected THEN {"ok", "err", "timeout"} ELSE {"not_connected"}

\* the device fields a run reads and writes through its serial calls
Device == [zones |-> zone_states, lcs |-> last_command_success, err |-> error_message]

\* send_command as a caller on the event loop sees it: the call returns with the
\* device updated, no other coroutine runs in between
DeviceAfterSend(dev, zone, action, outcome) ==
    IF outcome \in {"ok", "timeout"}
    THEN [dev EXCEPT !.zones = ApplyCommand(dev.zones,
                                  [kind |-> "send_command", zone |-> zone, action |-> action]),
                     !.lcs = TRUE]
    ELSE IF outcome = "err" THEN [dev EXCEPT !.lcs = FALSE, !.err = Some(<<"busy">>)]
    ELSE dev

DeviceAfterStop(dev, writeOk) ==
    [dev EXCEPT !.zones = EmergencyStopResult(dev.zones, is_connected, writeOk).zones]

\* mutant: every zone number is taken for a DeviceZone
IsDeviceZone_Always(zone_num) == TRUE

\* DeviceZone(zone_num) does not raise ValueError
IsDeviceZone(zone_num) == zone_num \in Zones

\* send_command returned True: the device answered OK, or did not answer in time
ReturnsTrue(outcome) == outcome \in {"ok", "timeout"}

\* the loop of execute_sequence from its top up to the next sleep or the end:
\* rest are the zones still to do, outs the outcome of the inflate of each zone,
\* cmds the commands sent so far and oks what send_command returned for each
RECURSIVE LoopFrom(_, _, _, _, _, _, _)
LoopFrom(i, rest, running, outs, dev, cmds, oks) ==
    IF rest = <<>> \/ ~running
    THEN [pc |-> "done", rest |-> rest, dev |-> dev, cmds |-> cmds, oks |-> oks]
    ELSE LET zone_num == Head(rest)
         IN  IF ~IsDeviceZone(zone_num)
             THEN LoopFrom(i + 1, Tail(rest), running, outs, dev, cmds, oks)
             ELSE LET cmd == [zone |-> zone_num, action |-> "inflate"]
                      after == DeviceAfterSend(dev, zone_num, "inflate", outs[i])
                  IN  IF ReturnsTrue(outs[i])
                      THEN [pc |-> "hold", rest |-> rest, dev |-> after,
                            cmds |-> Append(cmds, cmd), oks |-> Append(oks, TRUE)]
                      ELSE LoopFrom(i + 1, Tail(rest), running, outs, after,
                                    Append(cmds, cmd), Append(oks, FALSE))

LoopTop(rest, running, outs, dev) == LoopFrom(1, rest, running, outs, dev, <<>>, <<>>)

\* the state after run r went through the loop with result res
RunTo(r, res) ==
    /\ run_pc' = [run_pc EXCEPT ![r] = res.pc]
    /\ run_rest' = [run_rest EXCEPT ![r] = IF res.pc = "done" THEN <<>> ELSE res.rest]
    /\ issued' = Some([run |-> r, at |-> "loop", held |-> 0, cmds |-> res.cmds,
                       oks |-> res.oks])
    /\ zone_states' = res.dev.zones
    /\ last_command_success' = res.dev.lcs
    /\ error_message' = res.dev.err
    /\ ex_running' = (res.pc # "done")

\* the task stop() has to cancel and await, if any
StopTarget ==
    {t \in current_task : run_pc[t] # "done"}

ExecSerialUnchanged ==
    UNCHANGED <<serial_connected, serial_open, response_queue, queued_at_write, log_queue, sensor_data_queue,
                stop_reader, lines_lost, reader_threads, connect_pc, loop_owner, send_pc, send_cmd,
                last_call>>

\* execute_sequence of run r from its first line to its first suspension
EnterBody(r, seq, outs, writeOk) ==
    IF seq = <<>>
    THEN /\ run_pc' = [run_pc EXCEPT ![r] = "done"]
         /\ run_rest' = [run_rest EXCEPT ![r] = <<>>]
         /\ issued' = None
         /\ UNCHANGED <<ex_running, zone_states, last_command_success,
                        error_message, cancel_req, wait_for>>
    ELSE IF ex_running /\ StopTarget # None
    THEN \* stop(): cancel the current task and await it; when that task is this
         \* very run, the await fails at the next turn of the loop and stop() goes on
         /\ ex_running' = FALSE
         /\ cancel_req' = [t \in Runs |-> IF t \in StopTarget \ {r} THEN TRUE
                                          ELSE cancel_req[t]]
         /\ wait_for' = [wait_for EXCEPT ![r] = StopTarget \ {r}]
         /\ run_pc' = [run_pc EXCEPT ![r] = "stop_wait"]
         /\ run_rest' = [run_rest EXCEPT ![r] = seq]
         /\ issued' = None
         /\ UNCHANGED <<zone_states, last_command_success, error_message>>
    ELSE \* no stop(), or a stop() with no task to await; then the loop
         LET dev == IF ex_running THEN DeviceAfterStop(Device, writeOk) ELSE Device
         IN  /\ RunTo(r, LoopTop(seq, TRUE, outs, dev))
             /\ UNCHANGED <<cancel_req, wait_for>>

\* start_background: the task is created and remembered, it runs later
start_background(seq) ==
    /\ next_run <= MaxRuns
    /\ next_run' = next_run + 1
    /\ current_task' = Some(next_run)
    /\ run_pc' = [run_pc EXCEPT ![next_run] = "created"]
    /\ run_rest' = [run_rest EXCEPT ![next_run] = seq]
    /\ run_task' = [run_task EXCEPT ![next_run] = TRUE]
    /\ issued' = None
    /\ UNCHANGED <<ex_running, cancel_req, wait_for, stop_pc, stop_target, stop_inflight,
                   stop_estops>>
    /\ UNCHANGED serialVars

\* the task made by start_background runs for the first time
TaskEnter(r, outs, writeOk) ==
    /\ run_pc[r] = "created"
    /\ IF cancel_req[r]
       THEN /\ run_pc' = [run_pc EXCEPT ![r] = "done"]
            /\ cancel_req' = [cancel_req EXCEPT ![r] = FALSE]
            /\ issued' = None
            /\ run_rest' = [run_rest EXCEPT ![r] = <<>>]
            /\ UNCHANGED <<ex_running, wait_for, zone_states,
                           last_command_success, error_message>>
       ELSE EnterBody(r, run_rest[r], outs, writeOk)
    /\ UNCHANGED <<current_task, next_run, run_task, stop_pc, stop_target,
                   stop_inflight, stop_estops>>
    /\ ExecSerialUnchanged

\* a coroutine awaits execute_sequence(seq) itself
execute_sequence(seq, outs, writeOk) ==
    /\ next_run <= MaxRuns
    /\ next_run' = next_run + 1
    /\ EnterBody(next_run, seq, outs, writeOk)
    /\ UNCHANGED <<current_task, run_task, stop_pc, stop_target,
                   stop_inflight, stop_estops>>
    /\ ExecSerialUnchanged

\* the task awaited by the stop() inside execute_sequence is done: emergency stop,
\* then the loop
StopWaitResume(r, outs, writeOk) ==
    /\ run_pc[r] = "stop_wait"
    /\ \A t \in wait_for[r] : run_pc[t] = "done"
    /\ RunTo(r, LoopTop(run_rest[r], TRUE, outs, DeviceAfterStop(Device, writeOk)))
    /\ wait_for' = [wait_for EXCEPT ![r] = None]
    /\ UNCHANGED <<current_task, next_run, run_task, cancel_req, stop_pc,
                   stop_target, stop_inflight, stop_estops>>
    /\ ExecSerialUnchanged

\* mutant: a cancelled hold ends without a command
CancelledHoldCommands_None(zone) == <<>>

\* what a run sends when its hold is cancelled
CancelledHoldCommands(zone) == << [zone |-> zone, action |-> "deflate"] >>

\* mutant: the hold ends and the run goes on without a command
HoldEndCommands_None(zone) == <<>>

\* what a run sends when its hold has lasted the duration: _deflate_zone(zone)
HoldEndCommands(zone) == << [zone |-> zone, action |-> "deflate"] >>

\* the device after run r, holding zone, issued the commands cmds (at most one) at
\* the place at
IssueTo(r, at, zone, cmds, out) ==
    LET after == IF cmds = <<>> THEN Device
                 ELSE DeviceAfterSend(Device, cmds[1].zone, cmds[1].action, out)
    IN  /\ issued' = Some([run |-> r, at |-> at, held |-> zone, cmds |-> cmds,
                           oks |-> [k \in 1..Len(cmds) |-> ReturnsTrue(out)]])
        /\ zone_states' = after.zones
        /\ last_command_success' = after.lcs
        /\ error_message' = after.err

\* the hold of run r ends: by cancellation, by a cleared _running, or by time
HoldWake(r, out) ==
    /\ run_pc[r] = "hold"
    /\ LET zone == Head(run_rest[r])
       IN  IF cancel_req[r]
           THEN /\ IssueTo(r, "cancelled_hold", zone, CancelledHoldCommands(zone), out)
                /\ cancel_req' = [cancel_req EXCEPT ![r] = FALSE]
                /\ run_pc' = [run_pc EXCEPT ![r] = "done"]
                /\ run_rest' = [run_rest EXCEPT ![r] = <<>>]
                /\ ex_running' = FALSE
           ELSE /\ IssueTo(r, "hold_end", zone, HoldEndCommands(zone), out)
                /\ run_pc' = [run_pc EXCEPT ![r] = IF ex_running THEN "transition" ELSE "done"]
                /\ run_rest' = [run_rest EXCEPT ![r] = IF ex_running THEN @ ELSE <<>>]
                /\ ex_running' = ex_running
                /\ UNCHANGED cancel_req
    /\ UNCHANGED <<current_task, next_run, run_task, wait_for, stop_pc, stop_target,
                   stop_inflight, stop_estops>>
    /\ ExecSerialUnchanged

\* the pause between two zones ends: by cancellation or by time
TransitionWake(r, outs) ==
    /\ run_pc[r] = "transition"
    /\ IF cancel_req[r]
       THEN /\ run_pc' = [run_pc EXCEPT ![r] = "done"]
            /\ cancel_req' = [cancel_req EXCEPT ![r] = FALSE]
            /\ ex_running' = FALSE
            /\ issued' = Some([run |-> r, at |-> "cancelled_transition", held |-> 0,
                                cmds |-> <<>>, oks |-> <<>>])
            /\ run_rest' = [run_rest EXCEPT ![r] = <<>>]
            /\ UNCHANGED <<zone_states, last_command_success, error_message>>
       ELSE /\ RunTo(r, LoopTop(Tail(run_rest[r]), ex_running, outs, Device))
            /\ UNCHANGED cancel_req
    /\ UNCHANGED <<current_task, next_run, run_task, wait_for, stop_pc,
                   stop_target, stop_inflight, stop_estops>>
    /\ ExecSerialUnchanged

\* the holder of the Task returned by start_background cancels it
CancelTask(r) ==
    /\ run_task[r]
    /\ run_pc[r] \in {"created", "hold", "transition"}
    /\ ~cancel_req[r]
    /\ cancel_req' = [cancel_req EXCEPT ![r] = TRUE]
    /\ issued' = None
    /\ UNCHANGED <<ex_running, current_task, next_run, run_pc, run_rest, run_task, wait_for,
                   stop_pc, stop_target, stop_inflight, stop_estops>>
    /\ UNCHANGED serialVars

\* the runs that are between their first command and their return
MidSequence == {r \in Runs : run_pc[r] \in {"hold", "transition"}}

\* a coroutine calls stop(): up to the await of the current task, or to the end
stop(writeOk) ==
    /\ stop_pc = "idle"
    /\ ex_running' = FALSE
    /\ stop_inflight' = MidSequence
    /\ IF StopTarget # None
       THEN /\ cancel_req' = [t \in Runs |-> IF t \in StopTarget THEN TRUE ELSE cancel_req[t]]
            /\ stop_target' = StopTarget
            /\ stop_pc' = "waiting"
            /\ UNCHANGED <<stop_estops, zone_states>>
       ELSE /\ zone_states' = DeviceAfterStop(Device, writeOk).zones
            /\ stop_estops' = stop_estops + 1
            /\ stop_pc' = "returned"
            /\ UNCHANGED <<cancel_req, stop_target>>
    /\ issued' = None
    /\ UNCHANGED <<current_task, next_run, run_pc, run_rest, run_task, wait_for,
                   last_command_success, error_message>>
    /\ ExecSerialUnchanged

\* the task awaited by stop() is done: emergency stop, stop() returns
StopResume(writeOk) ==
    /\ stop_pc = "waiting"
    /\ \A t \in stop_target : run_pc[t] = "done"
    /\ zone_states' = DeviceAfterStop(Device, writeOk).zones
    /\ stop_estops' = stop_estops + 1
    /\ stop_pc' = "returned"
    /\ stop_target' = None
    /\ issued' = None
    /\ UNCHANGED <<ex_running, current_task, next_run, run_pc, run_rest, run_task, cancel_req,
                   wait_for, stop_inflight, last_command_success, error_message>>
    /\ ExecSerialUnchanged

\* the outcome of the inflate of each zone of a sequence, by position
LongestSequence ==
    CHOOSE n \in 0..NumZones : /\ \E seq \in ExecSequences : Len(seq) = n
                               /\ \A seq \in ExecSequences : Len(seq) <= n

InflateOutcomes == [1..LongestSequence -> SendOutcomes]

ExecNext ==
    \/ \E seq \in ExecSequences : start_background(seq) /\ UNCHANGED nonExecVars
    \/ \E r \in Runs, outs \in InflateOutcomes, writeOk \in BOOLEAN :
          TaskEnter(r, outs, writeOk) /\ UNCHANGED nonExecVars
    \/ \E seq \in ExecSequences, outs \in InflateOutcomes, writeOk \in BOOLEAN :
          execute_sequence(seq, outs, writeOk) /\ UNCHANGED nonExecVars
    \/ \E r \in Runs, outs \in InflateOutcomes, writeOk \in BOOLEAN :
          StopWaitResume(r, outs, writeOk) /\ UNCHANGED nonExecVars
    \/ \E r \in Runs, out \in SendOutcomes : HoldWake(r, out) /\ UNCHANGED nonExecVars
    \/ \E r \in Runs, outs \in InflateOutcomes :
          TransitionWake(r, outs) /\ UNCHANGED nonExecVars
    \/ \E r \in Runs : CancelTask(r) /\ UNCHANGED nonExecVars
    \/ \E writeOk \in BOOLEAN : stop(writeOk) /\ UNCHANGED nonExecVars
    \/ \E writeOk \in BOOLEAN : StopResume(writeOk) /\ UNCHANGED nonExecVars

\* the serial device handed to the executor: constructed, connect() has returned ok
SerialAfterConnect(ok) ==
    /\ serial_connected = ok
    /\ serial_open = ok
    /\ zone_states = AllOff
    /\ last_command_success = TRUE
    /\ error_message = IF ok THEN None ELSE Some(<<"open failed">>)
    /\ response_queue = <<>>
    /\ queued_at_write = 0
    /\ log_queue = <<>>
    /\ sensor_data_queue = <<>>
    /\ stop_reader = FALSE
    /\ lines_lost = 0
    /\ reader_threads = IF ok THEN 1 ELSE 0
    /\ connect_pc = "idle"
    /\ loop_owner = None
    /\ send_pc = [c \in Callers |-> "idle"]
    /\ send_cmd = [c \in Callers |-> <<>>]
    /\ last_call = [op |-> "connect", outcome |-> IF ok THEN "ok" ELSE "open_failed",
                    ret |-> ok]

(***************************************************************************)
(* MasterNodeClient                                                        *)
(***************************************************************************)
Conns == 1..MaxConns

\* the lines the master sends: a control signal, a line that is no JSON, a JSON
\* object whose action is no ControlAction, and a control signal on which the
\* registered handler raises
MasterLines == {"signal", "bad_json", "bad_action", "handler_raises"}

\* no line was handled in the last step
NoLine == [by |-> 0, line |-> "none", handler_calls |-> 0, ack_to |-> {}]

ChannelInit ==
    /\ client_writer = None
    /\ client_reader = None
    /\ m_connected = FALSE
    /\ next_conn = 1
    /\ conn_pc = [c \in Conns |-> "none"]
    /\ reading_on = [c \in Conns |-> None]
    /\ to_close = [c \in Conns |-> None]
    /\ writer_closed = [c \in Conns |-> FALSE]
    /\ peer_closed = [c \in Conns |-> FALSE]
    /\ out_pending = {}
    /\ stop_wait = None
    /\ chan_op = [op |-> "none", to |-> None]
    /\ line_op = NoLine

\* start(): the server listens
MasterStart ==
    /\ ~m_running
    /\ next_conn = 1
    /\ m_running' = TRUE
    /\ chan_op' = [op |-> "start", to |-> None]
    /\ line_op' = NoLine
    /\ UNCHANGED <<client_writer, client_reader, m_connected, next_conn, conn_pc, reading_on,
                   to_close, writer_closed, peer_closed>>

\* mutant: a connection that found a peer installed leaves that peer's writer in place
InstalledWriter_KeepsOld(b, old) == IF old = None THEN Some(b) ELSE old

\* the writer the handler of connection b installs
InstalledWriter(b, old) == Some(b)

\* the top of the read loop of connection c, given the installed reader rd: the loop
\* ends when the channel is stopped or no reader is installed; a readline() on a
\* reader another loop already waits on raises
ReadLoopTop(c, rd) ==
    IF ~m_running \/ rd = None THEN [pc |-> "ended", on |-> None]
    ELSE IF \E q \in Conns \ {c} : conn_pc[q] = "reading" /\ reading_on[q] = rd
    THEN [pc |-> "ended", on |-> None]
    ELSE [pc |-> "reading", on |-> rd]

\* reader, writer and flag are set for connection b, its read loop starts
Install(b, old) ==
    LET top == ReadLoopTop(b, Some(b))
    IN  /\ client_reader' = Some(b)
        /\ client_writer' = InstalledWriter(b, old)
        /\ m_connected' = (top.pc = "reading")
        /\ conn_pc' = [conn_pc EXCEPT ![b] = top.pc]
        /\ reading_on' = [reading_on EXCEPT ![b] = top.on]
        /\ chan_op' = [op |-> "install", to |-> Some(b)]
        /\ line_op' = NoLine

\* _handle_connection of a new connection up to its first suspension
HandleConnection(b) ==
    /\ m_running
    /\ b = next_conn
    /\ next_conn' = next_conn + 1
    /\ to_close' = [to_close EXCEPT ![b] = client_writer]
    /\ IF client_writer # None
       THEN /\ writer_closed' = [c \in Conns |-> c \in client_writer \/ writer_closed[c]]
            /\ conn_pc' = [conn_pc EXCEPT ![b] = "closing"]
            /\ chan_op' = [op |-> "accept", to |-> None]
            /\ line_op' = NoLine
            /\ UNCHANGED <<client_writer, client_reader, m_connected, reading_on>>
       ELSE /\ Install(b, client_writer)
            /\ UNCHANGED writer_closed
    /\ UNCHANGED peer_closed

\* wait_closed() of the old writer returned: _close_client clears the fields,
\* then the new connection is installed.  The loss of the old connection feeds the
\* end of stream to its reader before it completes wait_closed(), so a read loop
\* that waits on that reader has taken its end of stream first.
CloseDone(b) ==
    /\ conn_pc[b] = "closing"
    /\ \A c \in Conns : conn_pc[c] = "reading" => reading_on[c] \cap to_close[b] = {}
    /\ Install(b, to_close[b])
    /\ UNCHANGED <<next_conn, to_close, writer_closed, peer_closed>>

\* the reader connection c waits on is at its end
AtEOF(rd) == \E a \in rd : writer_closed[a] \/ peer_closed[a]

\* mutant: the end of a handler leaves the connected flag as it was
ConnectedAfterLoop_Keeps == m_connected

\* the finally clause of _handle_connection: the connected flag after the read loop
ConnectedAfterLoop == FALSE

\* readline() returns b'': the loop breaks, the handler ends
ReadEOF(c) ==
    /\ conn_pc[c] = "reading"
    /\ AtEOF(reading_on[c])
    /\ conn_pc' = [conn_pc EXCEPT ![c] = "ended"]
    /\ reading_on' = [reading_on EXCEPT ![c] = None]
    /\ m_connected' = ConnectedAfterLoop
    /\ chan_op' = [op |-> "eof", to |-> None]
    /\ line_op' = NoLine
    /\ UNCHANGED <<client_writer, client_reader, next_conn, to_close, writer_closed,
                   peer_closed>>

\* mutant: a line that is no JSON ends the read loop like any other exception
Raises_AlsoBadJson(line) == line \in {"bad_json", "bad_action", "handler_raises"}

\* the lines whose handling raises something else than json.JSONDecodeError, which
\* is the one exception caught inside the loop
Raises(line) == line \in {"bad_action", "handler_raises"}

\* the calls of the registered handler the line leads to
HandlerCalls(line) == IF line \in {"signal", "handler_raises"} THEN 1 ELSE 0

\* send_ack(): the peers an ACK line is written to
AckTo(line) == IF line = "signal" THEN {w \in client_writer : ~writer_closed[w]} ELSE {}

\* readline() returns a line: decoded, handled, acknowledged, then the loop goes on
ReadMessage(c, line) ==
    /\ conn_pc[c] = "reading"
    /\ ~AtEOF(reading_on[c])
    /\ line_op' = [by |-> c, line |-> line, handler_calls |-> HandlerCalls(line),
                   ack_to |-> AckTo(line)]
    /\ LET top == IF Raises(line) THEN [pc |-> "ended", on |-> None]
                  ELSE ReadLoopTop(c, client_reader)
       IN  /\ conn_pc' = [conn_pc EXCEPT ![c] = top.pc]
           /\ reading_on' = [reading_on EXCEPT ![c] = top.on]
           /\ m_connected' = IF top.pc = "ended" THEN ConnectedAfterLoop ELSE m_connected
    /\ chan_op' = IF line = "signal" THEN [op |-> "ack", to |-> client_writer]
                  ELSE [op |-> "dropped", to |-> None]
    /\ UNCHANGED <<client_writer, client_reader, next_conn, to_close, writer_closed,
                   peer_closed>>

\* readline() returns a control signal and the registered handler, awaited by the
\* read loop, waits for something: other coroutines run until it returns
HandlerSuspends(c) ==
    /\ conn_pc[c] = "reading"
    /\ ~AtEOF(reading_on[c])
    /\ conn_pc' = [conn_pc EXCEPT ![c] = "handling"]
    /\ reading_on' = [reading_on EXCEPT ![c] = None]
    /\ chan_op' = [op |-> "handler", to |-> None]
    /\ line_op' = NoLine
    /\ UNCHANGED <<client_writer, client_reader, m_connected, next_conn, to_close,
                   writer_closed, peer_closed>>

\* the handler returns: send_ack() writes to the writer installed now, then the
\* loop goes on with the reader installed now
HandlerReturns(c) ==
    /\ conn_pc[c] = "handling"
    /\ line_op' = [by |-> c, line |-> "signal", handler_calls |-> HandlerCalls("signal"),
                   ack_to |-> AckTo("signal")]
    /\ LET top == ReadLoopTop(c, client_reader)
       IN  /\ conn_pc' = [conn_pc EXCEPT ![c] = top.pc]
           /\ reading_on' = [reading_on EXCEPT ![c] = top.on]
           /\ m_connected' = IF top.pc = "ended" THEN ConnectedAfterLoop ELSE m_connected
    /\ chan_op' = [op |-> "ack", to |-> client_writer]
    /\ UNCHANGED <<client_writer, client_reader, next_conn, to_close, writer_closed,
                   peer_closed>>

\* the master closes its end of connection c
PeerClose(c) ==
    /\ conn_pc[c] # "none"
    /\ ~peer_closed[c]
    /\ peer_closed' = [peer_closed EXCEPT ![c] = TRUE]
    /\ chan_op' = [op |-> "peer_close", to |-> None]
    /\ line_op' = NoLine
    /\ UNCHANGED <<client_writer, client_reader, m_connected, next_conn, conn_pc, reading_on,
                   to_close, writer_closed>>

\* a telemetry line is pushed to the installed writer, if there is one
send_sensor_data ==
    /\ m_running
    /\ chan_op' = [op |-> "push", to |-> client_writer]
    /\ line_op' = NoLine
    /\ UNCHANGED <<client_writer, client_reader, m_connected, next_conn, conn_pc, reading_on,
                   to_close, writer_closed, peer_closed>>

ChannelNext ==
    \/ MasterStart /\ UNCHANGED nonChannelVars
    \/ \E b \in Conns : HandleConnection(b) /\ UNCHANGED <<nonChannelVars, m_running>>
    \/ \E b \in Conns : CloseDone(b) /\ UNCHANGED <<nonChannelVars, m_running>>
    \/ \E c \in Conns : ReadEOF(c) /\ UNCHANGED <<nonChannelVars, m_running>>
    \/ \E c \in Conns, line \in MasterLines :
          ReadMessage(c, line) /\ UNCHANGED <<nonChannelVars, m_running>>
    \/ \E c \in Conns : HandlerSuspends(c) /\ UNCHANGED <<nonChannelVars, m_running>>
    \/ \E c \in Conns : HandlerReturns(c) /\ UNCHANGED <<nonChannelVars, m_running>>
    \/ \E c \in Conns : PeerClose(c) /\ UNCHANGED <<nonChannelVars, m_running>>
    \/ send_sensor_data /\ UNCHANGED <<nonChannelVars, m_running>>

(***************************************************************************)
(* The other operations of ServiceFacade: handle_control_signal,           *)
(* get_system_status and the sensor data loop                              *)
(***************************************************************************)
CoordInit ==
    /\ signals_handled = 0
    /\ tele_next = 1
    /\ tele_ids = <<>>
    /\ tele_dropped = {}
    /\ pushes = <<>>

\* the signals of the legacy path: no target zone, zone 1, zones 9 and 2
Signals ==
    { [target_zones |-> <<>>, action |-> "inflate"],
      [target_zones |-> <<1>>, action |-> "inflate"],
      [target_zones |-> <<9, 2>>, action |-> "deflate"],
      [target_zones |-> <<1>>, action |-> "none"] }

\* ControlService.ZONE_MAP
ZONE_MAP == 1..7

\* ControlService.process_signal: one command per target zone that is a key of
\* ZONE_MAP
process_signal(signal) ==
    IF signal.action = "none" \/ signal.target_zones = <<>> THEN <<>>
    ELSE LET valid == SelectSeq(signal.target_zones, LAMBDA zone_num : zone_num \in ZONE_MAP)
         IN  [k \in 1..Len(valid) |-> [zone |-> valid[k], action |-> signal.action]]

\* the zone states after the commands were acknowledged
RECURSIVE ZonesAfterCommands(_, _)
ZonesAfterCommands(zs, commands) ==
    IF commands = <<>> THEN zs
    ELSE ZonesAfterCommands(
             [zs EXCEPT ![Head(commands).zone] =
                  IF Head(commands).action = "inflate" THEN 1 ELSE 0],
             Tail(commands))

\* send_commands as the facade sees it: every send_command of the call blocks the
\* event loop until its response or its timeout; the commands of one call meet
\* the same outcome
SendCommandsCall(commands, writeOk, resp) ==
    LET outcome == IF ~is_connected THEN "not_connected"
                   ELSE IF ~writeOk THEN "write_failed"
                   ELSE resp
        ret == outcome \in {"ok", "timeout"}
    IN  /\ loop_owner = None
        /\ last_call' = [op |-> "send_commands", outcome |-> outcome, ret |-> ret]
        /\ zone_states' = IF ret THEN ZonesAfterCommands(zone_states, commands)
                          ELSE zone_states
        /\ error_message' = IF outcome = "write_failed" THEN Some(<<"write failed">>)
                            ELSE IF outcome = "err" THEN Some(<<"busy">>)
                            ELSE error_message
        /\ last_command_success' = IF outcome = "not_connected" THEN last_command_success
                                   ELSE ret
        /\ UNCHANGED <<serial_connected, serial_open, response_queue, queued_at_write, log_queue,
                       sensor_data_queue, stop_reader, lines_lost, reader_threads, connect_pc,
                       loop_owner, send_pc, send_cmd>>

handle_control_signal(signal, writeOk, resp) ==
    LET commands == process_signal(signal)
    IN  /\ m_running
        /\ ~ShutdownHoldsLoop
        /\ signals_handled < MaxSignals
        /\ signals_handled' = signals_handled + 1
        /\ IF commands = <<>>
           THEN /\ UNCHANGED <<commands_executed, errors_count>>
                /\ UNCHANGED serialVars
           ELSE /\ SendCommandsCall(commands, writeOk, resp)
                /\ LET success == last_call'.ret
                   IN  /\ commands_executed' = IF success
                                               THEN commands_executed + Len(commands)
                                               ELSE commands_executed
                       /\ errors_count' = IF success THEN errors_count
                                          ELSE errors_count + 1
        /\ UNCHANGED <<facade_pc, shutdown_idx, shutdown_log, air_activated,
                       last_zone_sequence, sensor_task, display_started, m_running,
                       packets_handled, estop_calls, seq_calls, h_last, last_packet,
                       h_cycle>>
        /\ UNCHANGED <<tele_next, tele_ids, tele_dropped, pushes>>

\* the status snapshot
SystemStatus ==
    [master_connection |-> m_connected, serial_connection |-> is_connected,
     commands_executed |-> commands_executed, errors_count |-> errors_count]

\* get_system_status() reads and assigns nothing
get_system_status ==
    /\ SystemStatus.commands_executed = commands_executed
    /\ UNCHANGED vars

\* the lines the reader routes to the telemetry queue
TelemetryLines == {line \in DeviceLines : Route(line) = "sensor"}

\* the reader thread publishes a telemetry value
Publish(line) ==
    /\ tele_next <= MaxTelemetry
    /\ ReaderStep(line)
    /\ tele_ids' = Append(tele_ids, tele_next)
    /\ tele_next' = tele_next + 1
    /\ UNCHANGED <<signals_handled, tele_dropped, pushes>>

\* mutant: a value is written to no one
PushTargets_None(writer, closed) == {}

\* the writers a pushed line is written to: the installed writer, unless it is closed
PushTargets(writer, closed) == {w \in writer : ~closed[w]}

\* one pass of _sensor_data_loop: get_sensor_data(), and with a value the push to
\* the master, without a suspension point between the two
SensorDataLoopPass ==
    /\ sensor_task = "running"
    /\ ~ShutdownHoldsLoop
    /\ GetSensorData
    /\ tele_ids' = Drained(tele_ids)
    /\ IF tele_ids = <<>>
       THEN UNCHANGED <<tele_dropped, pushes, channelVars>>
       ELSE LET to == PushTargets(client_writer, writer_closed)
            IN  /\ send_sensor_data
                /\ tele_dropped' = tele_dropped \cup
                                      {tele_ids[k] : k \in 1..(Len(tele_ids) - 1)}
                /\ pushes' = IF to = {} THEN pushes
                             ELSE Append(pushes, [id |-> tele_ids[Len(tele_ids)], to |-> to])
    /\ UNCHANGED <<signals_handled, tele_next>>

\* _close_client() as stop() calls it
StopCloseClient ==
    /\ writer_closed' = [c \in Conns |-> c \in client_writer \/ writer_closed[c]]
    /\ client_writer' = None
    /\ client_reader' = None
    /\ m_connected' = FALSE
    /\ chan_op' = [op |-> "stop", to |-> None]
    /\ line_op' = NoLine
    /\ UNCHANGED <<next_conn, conn_pc, reading_on, to_close, peer_closed>>

\* a call of shutdown() with a channel that may have a peer: stop() closes it
ShutdownWithPeer(estopWriteOk) ==
    /\ ShutdownStep(estopWriteOk)
    /\ IF shutdown_idx < Len(ShutdownSteps) /\ ShutdownSteps[shutdown_idx + 1] = "master.stop"
       THEN StopCloseClient
       ELSE UNCHANGED channelVars

\* the packets handled next to the other operations: one with a plan from the
\* pressures, one without a plan, each with and without activation
OpsPackets == {packet \in Packets : packet.orders = None /\ packet.durations = DurationsNone
                                      /\ packet.pressures \in {PressuresA, <<>>}}

\* the facade with all its operations and a device that reports telemetry, no peer
OpsNext ==
    \/ \E ok \in BOOLEAN : InitializeStart(ok) /\ UNCHANGED nonFacadeVars
    \/ InitializeFinish /\ UNCHANGED nonFacadeVars
    \/ \E packet \in OpsPackets, estopWriteOk \in BOOLEAN, writeOk \in BOOLEAN,
          resp \in {"ok", "err", "timeout"} :
          /\ packets_handled < MaxOpsPackets
          /\ handle_control_packet(packet, estopWriteOk, writeOk, resp)
          /\ UNCHANGED nonFacadeVars
    \/ \E estopWriteOk \in BOOLEAN : ShutdownStep(estopWriteOk) /\ UNCHANGED nonFacadeVars
    \/ \E signal \in Signals, writeOk \in BOOLEAN, resp \in {"ok", "err", "timeout"} :
          /\ handle_control_signal(signal, writeOk, resp)
          /\ UNCHANGED <<execVars, channelVars, priorityVars, closeVars>>
    \/ get_system_status
    \/ \E line \in TelemetryLines :
          Publish(line) /\ UNCHANGED <<facadeVars, execVars, channelVars, priorityVars, closeVars>>
    \/ SensorDataLoopPass /\ UNCHANGED <<facadeVars, execVars, priorityVars, closeVars>>

\* the steps of the telemetry path that the scheduling of the program takes in the
\* end: the loop task wakes every 100 ms, initialize() and shutdown() go on
LoopGoesOn == SensorDataLoopPass /\ UNCHANGED <<facadeVars, execVars, priorityVars, closeVars>>

InitializeGoesOn == InitializeFinish /\ UNCHANGED nonFacadeVars

ShutdownGoesOn ==
    /\ facade_pc = "shutdown"
    /\ \E estopWriteOk \in BOOLEAN :
          ShutdownWithPeer(estopWriteOk) /\ UNCHANGED <<execVars, priorityVars, closeVars, coordVars>>

\* the telemetry path: device, loop, and a master that connects and goes
TelemetryNext ==
    \/ \E ok \in BOOLEAN : InitializeStart(ok) /\ UNCHANGED nonFacadeVars
    \/ InitializeGoesOn
    \/ \E line \in TelemetryLines :
          Publish(line) /\ UNCHANGED <<facadeVars, execVars, channelVars, priorityVars, closeVars>>
    \/ LoopGoesOn
    \/ \E b \in 1..MaxPeers : HandleConnection(b) /\ UNCHANGED <<nonChannelVars, m_running>>
    \/ \E b \in Conns : CloseDone(b) /\ UNCHANGED <<nonChannelVars, m_running>>
    \/ \E c \in Conns : ReadEOF(c) /\ UNCHANGED <<nonChannelVars, m_running>>
    \/ \E c \in Conns : PeerClose(c) /\ UNCHANGED <<nonChannelVars, m_running>>
    \/ \E estopWriteOk \in BOOLEAN :
          ShutdownWithPeer(estopWriteOk) /\ UNCHANGED <<execVars, priorityVars, closeVars, coordVars>>

(***************************************************************************)
(* One call of determine_zone_order on inputs drawn from bounded sets       *)
(***************************************************************************)
\* body parts of the pressure map: two parts of zone 1, one of zone 3, one of
\* zone 4 and a key that is no body part
PriorityParts == {"occiput", "scapula", "sacrum", "left_heel", "head"}
PriorityPressures == {0, 50, 90}

\* the pressure maps: up to MaxParts items with distinct keys, in every order
PressureMaps ==
    {m \in UNION {[1..n -> [part : PriorityParts, pressure : PriorityPressures]] :
                    n \in 0..MaxParts} :
        \A i, j \in 1..Len(m) : i # j => m[i].part # m[j].part}

\* the duration maps: empty, six minutes for every part, six minutes for the sacrum
PriorityDurations ==
    {<<>>, [bp \in PriorityParts |-> 360], [bp \in {"sacrum"} |-> 360]}

\* controls.orders: absent, empty, a reordering, lists with numbers that are no
\* zone, a list that names a zone twice
ForcedOrders ==
    {None, Some(<<>>), Some(<<3, 1>>), Some(<<4, 9, 2>>), Some(<<0, 1, 1>>), Some(<<5>>)}

\* no call of _calculate_relief_time is followed
ReliefIdle ==
    /\ rt_pressure = 0
    /\ rt_duration = 0
    /\ rt_result = None

\* no call of determine_zone_order is followed
OrderIdle ==
    /\ arg_pressures = <<>>
    /\ arg_durations = <<>>
    /\ arg_forced_orders = None
    /\ zone_order = None

PriorityIdle == OrderIdle /\ ReliefIdle

PriorityInit ==
    /\ arg_pressures \in PressureMaps
    /\ arg_durations \in PriorityDurations
    /\ arg_forced_orders \in ForcedOrders
    /\ zone_order = None
    /\ ReliefIdle

\* the call returns
DetermineZoneOrder ==
    /\ zone_order = None
    /\ zone_order' = Some(determine_zone_order(arg_pressures, arg_durations, arg_forced_orders))
    /\ UNCHANGED <<arg_pressures, arg_durations, arg_forced_orders,
                   rt_pressure, rt_duration, rt_result>>

PriorityNext == DetermineZoneOrder /\ UNCHANGED nonPriorityVars

(***************************************************************************)
(* One call of _calculate_relief_time on inputs drawn from bounded sets     *)
(***************************************************************************)
\* durations in seconds, on both sides of LONG_DURATION_THRESHOLD
ReliefDurations == {0, 299, 300, 301, 600}

ReliefInit ==
    /\ rt_pressure \in 0..MaxPressure
    /\ rt_duration \in ReliefDurations
    /\ rt_result = None
    /\ OrderIdle

\* the call returns
CalculateReliefTime ==
    /\ rt_result = None
    /\ rt_result' = Some(_calculate_relief_time(rt_pressure, rt_duration))
    /\ UNCHANGED <<arg_pressures, arg_durations, arg_forced_orders, zone_order,
                   rt_pressure, rt_duration>>

ReliefNext == CalculateReliefTime /\ UNCHANGED nonPriorityVars

(***************************************************************************)
(* shutdown() with a peer on the channel: the wait inside stop()           *)
(***************************************************************************)
\* the bytes of the ACK just written to connection c stay in its transport: the
\* peer does not read and the buffers of the socket are full
OutputStalls(c) ==
    /\ c \in client_writer
    /\ c \in line_op.ack_to
    /\ c \notin out_pending
    /\ ~writer_closed[c] /\ ~peer_closed[c]
    /\ out_pending' = out_pending \cup {c}
    /\ UNCHANGED <<serialVars, facadeVars, execVars, channelVars, priorityVars, coordVars,
                   stop_wait>>

\* the peer of connection c reads what was written to it
PeerReads(c) ==
    /\ c \in out_pending
    /\ ~peer_closed[c]
    /\ out_pending' = out_pending \ {c}
    /\ UNCHANGED <<serialVars, facadeVars, execVars, channelVars, priorityVars, coordVars,
                   stop_wait>>

\* the next call of shutdown() is the stop() of the channel
StopIsNext ==
    /\ facade_pc \in {"running", "shutdown"}
    /\ shutdown_idx < Len(ShutdownSteps)
    /\ ShutdownSteps[shutdown_idx + 1] = "master.stop"

\* a call of shutdown() before the stop() of the channel
ShutdownBeforeStop(estopWriteOk) ==
    /\ ~StopIsNext
    /\ ShutdownStep(estopWriteOk)
    /\ UNCHANGED <<execVars, channelVars, priorityVars, coordVars, closeVars>>

\* stop() up to its wait: _running = False, and _close_client() closes the
\* installed writer and awaits wait_closed()
StopBegin ==
    /\ StopIsNext
    /\ stop_wait = None
    /\ client_writer # None
    /\ m_running' = FALSE
    /\ writer_closed' = [c \in Conns |-> c \in client_writer \/ writer_closed[c]]
    /\ stop_wait' = client_writer
    /\ chan_op' = [op |-> "stop", to |-> None]
    /\ line_op' = NoLine
    /\ UNCHANGED <<client_writer, client_reader, m_connected, next_conn, conn_pc, reading_on,
                   to_close, peer_closed, out_pending>>
    /\ UNCHANGED <<serialVars, facadeOwnVars, execVars, priorityVars, coordVars>>

\* wait_closed() of a closed writer returns when its transport has lost the
\* connection: at once when it holds no output, else when the output is gone
\* or the peer has closed
WaitClosedReturns(w) == w \notin out_pending \/ peer_closed[w]

\* stop() from its wait to its end: the fields are cleared, the server is closed
StopFinish(estopWriteOk) ==
    /\ StopIsNext
    /\ ShutdownStep(estopWriteOk)
    /\ IF stop_wait = None
       THEN /\ client_writer = None
            /\ UNCHANGED <<channelVars, closeVars>>
       ELSE /\ \A w \in stop_wait : WaitClosedReturns(w)
            /\ client_writer' = None
            /\ client_reader' = None
            /\ m_connected' = FALSE
            /\ stop_wait' = None
            /\ chan_op' = [op |-> "stop", to |-> None]
            /\ line_op' = NoLine
            /\ UNCHANGED <<next_conn, conn_pc, reading_on, to_close, writer_closed,
                           peer_closed, out_pending>>
    /\ UNCHANGED <<execVars, priorityVars, coordVars>>

\* shutdown() goes on whenever its next call or the end of its wait is possible
ShutdownProgress ==
    \/ \E estopWriteOk \in BOOLEAN : ShutdownBeforeStop(estopWriteOk)
    \/ StopBegin
    \/ \E estopWriteOk \in BOOLEAN : StopFinish(estopWriteOk)

\* the facade, a master that connects, sends signals, reads or does not read its
\* ACKs and may close, and shutdown()
ShutdownNext ==
    \/ \E ok \in BOOLEAN : InitializeStart(ok) /\ UNCHANGED nonFacadeVars
    \/ InitializeFinish /\ UNCHANGED nonFacadeVars
    \/ \E b \in 1..MaxPeers : HandleConnection(b) /\ UNCHANGED <<nonChannelVars, m_running>>
    \/ \E b \in Conns : CloseDone(b) /\ UNCHANGED <<nonChannelVars, m_running>>
    \/ \E c \in Conns : ReadEOF(c) /\ UNCHANGED <<nonChannelVars, m_running>>
    \/ \E c \in Conns : ReadMessage(c, "signal") /\ UNCHANGED <<nonChannelVars, m_running>>
    \/ \E c \in Conns : PeerClose(c) /\ UNCHANGED <<nonChannelVars, m_running>>
    \/ \E c \in Conns : OutputStalls(c)
    \/ \E c \in Conns : PeerReads(c)
    \/ \E estopWriteOk \in BOOLEAN : ShutdownBeforeStop(estopWriteOk)
    \/ StopBegin
    \/ \E estopWriteOk \in BOOLEAN : StopFinish(estopWriteOk)

InitExec ==
    /\ (\E ok \in BOOLEAN : SerialAfterConnect(ok))
    /\ FacadeInit /\ ExecInit /\ ChannelInit /\ PriorityIdle /\ CoordInit

InitPriority ==
    SerialInit /\ FacadeInit /\ ExecInit /\ ChannelInit /\ PriorityInit /\ CoordInit

InitRelief ==
    SerialInit /\ FacadeInit /\ ExecInit /\ ChannelInit /\ ReliefInit /\ CoordInit

Init == SerialInit /\ FacadeInit /\ ExecInit /\ ChannelInit /\ PriorityIdle /\ CoordInit

SpecSerial == Init /\ [][SerialNext]_vars

\* shutdown() makes each of its calls in turn; nothing is assumed of the peer
SpecShutdown == Init /\ [][ShutdownNext]_vars /\ WF_vars(ShutdownProgress)

SpecFacade == Init /\ [][FacadeNext]_vars

SpecExec == InitExec /\ [][ExecNext]_vars

SpecChannel == Init /\ [][ChannelNext]_vars

SpecPriority == InitPriority /\ [][PriorityNext]_vars

SpecRelief == InitRelief /\ [][ReliefNext]_vars

SpecOps == Init /\ [][OpsNext]_vars

SpecTelemetry ==
    /\ Init
    /\ [][TelemetryNext]_vars
    /\ WF_vars(LoopGoesOn)
    /\ WF_vars(InitializeGoesOn)
    /\ WF_vars(ShutdownGoesOn)

\* The two users of zone numbers, each on its own: the facade, which hands zone
\* lists to send_sequence, and a PatternExecutor on a connected device.  No
\* PatternExecutor is constructed where a ServiceFacade runs.
ExecutorUnused == next_run = 1 /\ issued = None /\ stop_pc = "idle"

ZoneIdsNext ==
    \/ ExecutorUnused /\ FacadeNext
    \/ facade_pc = "constructed" /\ ExecNext

SpecZoneIds == (Init \/ InitExec) /\ [][ZoneIdsNext]_vars

(***************************************************************************)
(* Claims about ServiceFacade (checked under SpecFacade)                   *)
(***************************************************************************)
\* C1: a packet that turns activation from true to false makes exactly one
\* emergency-stop call, and no send_sequence call is made by a step that leaves
\* activation false, so none happens until a packet with activate = true arrives
C1_DeactivationStopsOnce ==
    [][ /\ (air_activated /\ ~air_activated') =>
               (estop_calls' = estop_calls + 1 /\ seq_calls' = seq_calls)
        /\ (~air_activated') => seq_calls' = seq_calls ]_vars

C1_Witness == ~air_activated /\ estop_calls = 1 /\ seq_calls = 1 /\ packets_handled = 3
              /\ facade_pc = "running"

\* C2: while activation stays true, a packet whose plan has the same zone-id order
\* as the plan of the packet before it, which was sent with success, sends nothing
C2_SameOrderNotResent ==
    [][ (/\ packets_handled' = packets_handled + 1
         /\ h_last.sent /\ h_last.ok
         /\ h_last'.plan # None
         /\ h_last'.plan = h_last.plan)
        => (~h_last'.sent /\ seq_calls' = seq_calls) ]_vars

C2_Witness == /\ packets_handled = 2 /\ seq_calls = 1 /\ commands_executed = 1
              /\ h_last = [plan |-> Some(<<1, 3>>), sent |-> FALSE, ok |-> FALSE]
              /\ last_zone_sequence = Some(<<1, 3>>)

\* C8: shutdown calls the serial emergency stop before it disconnects the serial
\* link, and stops the master-node channel only after the serial disconnect
PositionsOf(step) == {i \in 1..Len(shutdown_log) : shutdown_log[i] = step}

C8_ShutdownOrder ==
    /\ \A i \in PositionsOf("serial.disconnect") :
           \E k \in PositionsOf("serial.emergency_stop") : k < i
    /\ \A j \in PositionsOf("master.stop") :
           \E k \in PositionsOf("serial.disconnect") : k < j
    /\ (facade_pc \in {"shutdown", "stopped"} /\ ~m_running) => ~serial_connected

C8_Witness == /\ facade_pc = "stopped" /\ ~m_running /\ ~serial_connected
              /\ PositionsOf("master.stop") # {} /\ packets_handled > 0

(***************************************************************************)
(* Claims about PatternExecutor (checked under SpecExec)                   *)
(***************************************************************************)
\* C4: the step in which a run takes the cancellation of its hold issues a deflate
\* command for the zone it holds, and the run has returned only with that step
C4_CancelledHoldDeflates ==
    \A s \in issued :
        s.at = "cancelled_hold" =>
            /\ s.cmds = << [zone |-> s.held, action |-> "deflate"] >>
            /\ run_pc[s.run] = "done"

C4_Witness ==
    /\ issued = Some([run |-> 1, at |-> "cancelled_hold", held |-> 2,
                      cmds |-> << [zone |-> 2, action |-> "deflate"] >>,
                      oks |-> <<TRUE>>])
    /\ run_pc[1] = "done" /\ zone_states[2] = 0 /\ is_connected

\* C9: when a run issues an inflate command, no other run is between its first
\* command and its return: the earlier run was stopped before the new one acts
C9_OneSequenceAtATime ==
    \A s \in issued :
        (\E i \in 1..Len(s.cmds) : s.cmds[i].action = "inflate")
            => \A q \in Runs \ {s.run} : run_pc[q] \notin {"hold", "transition"}

\* C10: stop() returns after exactly one emergency stop with is_running false, and
\* after its return no run that was in flight at the call issues a command
C10_StopEndsRun ==
    [][ /\ (stop_pc # "returned" /\ stop_pc' = "returned")
              => (stop_estops' = 1 /\ ~ex_running')
        /\ (stop_pc = "returned")
              => \A s \in issued' : s.run \in stop_inflight => s.cmds = <<>> ]_vars

(***************************************************************************)
(* Claims about MasterNodeClient (checked under SpecChannel)               *)
(***************************************************************************)
\* C6: a connection b that arrived while connection a was installed closes a's
\* writer and, by its install step, is the installed reader and writer with the
\* channel connected; no telemetry push after that is written to a
Replaced == {ab \in Conns \X Conns : ab[1] \in to_close[ab[2]]
                                      /\ conn_pc[ab[2]] \in {"reading", "handling", "ended"}}

C6_NewConnectionReplacesOld ==
    /\ \A ab \in Replaced :
           /\ writer_closed[ab[1]]
           /\ (chan_op.op = "push" => ab[1] \notin chan_op.to)
    /\ \A b \in Conns :
           (chan_op = [op |-> "install", to |-> Some(b)] /\ to_close[b] # None)
               => (client_writer = Some(b) /\ client_reader = Some(b) /\ m_connected)

C6_Witness ==
    /\ <<1, 2>> \in Replaced
    /\ conn_pc[1] = "ended" /\ ~peer_closed[1]
    /\ chan_op = [op |-> "push", to |-> Some(2)]

\* connection c is the installed peer and its read loop waits on its own reader
ActivePeer(c) ==
    /\ client_writer = Some(c)
    /\ client_reader = Some(c)
    /\ conn_pc[c] = "reading"
    /\ reading_on[c] = Some(c)

\* no other connection has a handler in progress
Alone(c) == \A a \in Conns \ {c} : conn_pc[a] \in {"none", "ended"}

\* C11: when the handling of a line of the active peer raises (the JSON object is
\* no valid message, or the registered handler raises), the read loop goes on:
\* the connection is still read and still counts as connected.
C11_RaisingLineKeepsLoop ==
    [][\A c \in Conns :
          (/\ line_op'.by = c
           /\ line_op'.line \in {"bad_action", "handler_raises"}
           /\ ActivePeer(c))
              => (ActivePeer(c)' /\ m_connected' = m_connected)]_vars

C13_OneAckToThePeer ==
    [][\A c \in Conns :
          (line_op'.by = c /\ line_op'.line = "signal")
              => (line_op'.handler_calls = 1 /\ line_op'.ack_to = {c})]_vars

\* C14: when the read loop of the active peer takes the end of its stream, the
\* loop ends and the channel is not connected; a connection that is installed
\* when every earlier handler has ended is the active peer, the channel is
\* connected and still listening, and each of its messages is handled and
\* acknowledged to it while it stays the active peer.
C14_ReconnectAfterClose ==
    [][\A c \in Conns :
          /\ (ActivePeer(c) /\ chan_op'.op = "eof" /\ conn_pc'[c] = "ended")
                 => ~m_connected'
          /\ (Alone(c) /\ conn_pc[c] # "reading" /\ chan_op' = [op |-> "install", to |-> Some(c)])
                 => (ActivePeer(c)' /\ m_connected' /\ m_running')
          /\ (Alone(c) /\ ActivePeer(c) /\ line_op'.by = c /\ line_op'.line = "signal")
                 => (/\ line_op'.handler_calls = 1
                     /\ line_op'.ack_to = {c}
                     /\ ActivePeer(c)'
                     /\ m_connected' = m_connected)]_vars

C14_Witness ==
    /\ conn_pc[1] = "ended" /\ peer_closed[1]
    /\ conn_pc[2] = "ended" /\ peer_closed[2]
    /\ to_close[2] = Some(1) /\ to_close[3] = Some(2)
    /\ ActivePeer(3)
    /\ m_connected
    /\ line_op = [by |-> 3, line |-> "signal", handler_calls |-> 1, ack_to |-> {3}]

(***************************************************************************)
(* Claims about SerialDevice (checked under SpecSerial)                    *)
(***************************************************************************)

\* C3: emergency_stop leaves every zone off in memory when it returns, whether
\* or not the stop byte could be written.  (The code resets the zone states
\* only after a successful write on a connected link.)
C3_EmergencyStopAlwaysAllOff ==
    last_call.op = "emergency_stop" => zone_states = AllOff

\* C5: at most one send_command / send_sequence has written its command and
\* is still waiting for its response.
InFlightSends == {c \in Callers : send_pc[c] = "waiting"}

C5_AtMostOneSendInFlight == Cardinality(InFlightSends) <= 1

\* a send is in flight while a response is already queued for it
C5_Witness == \E c \in Callers : send_pc[c] = "waiting" /\ response_queue # <<>>

IsCommandResponse(r) ==
    r \in {decode_response(l) : l \in {l \in DeviceLines : l = <<"OK">> \/ StartsWith(l, "ERR:")}}

\* the state of the device apart from the record of the last call
SerialButLastCall ==
    <<serial_connected, serial_open, zone_states, last_command_success, error_message,
      response_queue, queued_at_write, log_queue, sensor_data_queue, stop_reader, lines_lost, reader_threads,
      connect_pc, loop_owner, send_pc, send_cmd>>

\* C15: the response queue only ever holds decoded OK and ERR: lines, telemetry and
\* log lines are queued elsewhere, and a send that waits for its response ends
\* either with the head of the response queue (an OK or an ERR:) or, with the
\* queue empty, by its timeout.
C15_OnlyResponsesCompleteASend ==
    [][/\ \A i \in 1..Len(response_queue') : IsCommandResponse(response_queue'[i])
       /\ \A i \in 1..Len(log_queue') :
              ~StartsWith(log_queue'[i], "ZONES:") /\ ~LooksLikeJsonTelemetry(log_queue'[i])
       /\ (sensor_data_queue' # sensor_data_queue \/ log_queue' # log_queue)
              => response_queue' = response_queue
       /\ \A c \in Callers :
              (send_pc[c] = "waiting" /\ send_pc'[c] # "waiting")
                 => \/ /\ response_queue = <<>>
                       /\ last_call'.outcome = "timeout"
                    \/ /\ response_queue # <<>>
                       /\ IsCommandResponse(Head(response_queue))
                       /\ response_queue' = Tail(response_queue)
                       /\ last_call'.outcome =
                              (IF Head(response_queue).success THEN "ok" ELSE "err")]_vars

C15_Witness ==
    /\ \E c \in Callers : send_pc[c] = "waiting"
    /\ sensor_data_queue # <<>>
    /\ log_queue # <<>>
    /\ response_queue = <<>>

\* C16: get_sensor_data returns the value published last and leaves nothing to
\* read, so that a second call without new telemetry returns nothing;
\* has_sensor_data tells whether a value is waiting and changes nothing.
C16_SensorDataReadOnce ==
    [][/\ (/\ last_call'.op = "get_sensor_data"
           /\ (last_call' # last_call
                  \/ (sensor_data_queue # <<>> /\ sensor_data_queue' = <<>>)))
              => /\ sensor_data_queue' = <<>>
                 /\ last_call'.ret = (IF sensor_data_queue = <<>> THEN None
                                      ELSE Some(sensor_data_queue[Len(sensor_data_queue)]))
       /\ (last_call'.op = "has_sensor_data" /\ last_call' # last_call)
              => /\ last_call'.ret = (sensor_data_queue # <<>>)
                 /\ SerialButLastCall' = SerialButLastCall]_vars

C16_Witness ==
    /\ last_call = [op |-> "get_sensor_data", outcome |-> "ok",
                    ret |-> Some([inflated_zones |-> <<1, 2>>])]
    /\ sensor_data_queue = <<>>

\* C17: when the response to a send_command is ERR:<message>, the call returns
\* false, the message is kept as the error detail and the tracked zone state is
\* as before.
C17_ErrResponseFails ==
    [][\A c \in Callers :
          (/\ send_pc[c] = "waiting"
           /\ send_cmd[c].kind = "send_command"
           /\ response_queue # <<>>
           /\ ~Head(response_queue).success
           /\ send_pc'[c] = "idle")
              => (/\ last_call' = [op |-> "send_command", outcome |-> "err", ret |-> FALSE]
                  /\ error_message' = Some(Head(response_queue).error)
                  /\ ~last_command_success'
                  /\ zone_states' = zone_states)]_vars

C17_Witness ==
    /\ last_call = [op |-> "send_command", outcome |-> "err", ret |-> FALSE]
    /\ error_message = Some(<<"busy">>)
    /\ zone_states[1] = 1
    /\ zone_states[2] = 0

\* C18: send_sequence with an empty zone list returns false and writes nothing:
\* the call changes nothing of the device, and no send ever waits for the
\* response to an empty sequence.
C18_EmptySequenceNotSent ==
    [][/\ (last_call'.outcome = "empty" /\ last_call' # last_call)
              => /\ last_call' = [op |-> "send_sequence", outcome |-> "empty", ret |-> FALSE]
                 /\ SerialButLastCall' = SerialButLastCall
       /\ \A c \in Callers :
              (send_pc'[c] = "waiting" /\ send_cmd'[c].kind = "send_sequence")
                 => send_cmd'[c].zones # <<>>]_vars

C18_Witness ==
    /\ last_call = [op |-> "send_sequence", outcome |-> "empty", ret |-> FALSE]
    /\ is_connected
    /\ zone_states[1] = 1

(***************************************************************************)
(* Claims about ZonePriorityService (checked under SpecPriority)           *)
(***************************************************************************)
\* a zone number the device has
ValidZone(z) == z \in Zones

\* C19: with a forced order that is not empty, the returned zones are the forced
\* zone numbers that lie in 1..4, one entry for each, in the forced order,
\* whatever the pressures and durations are.
C19_ForcedOrderKept ==
    \A f \in arg_forced_orders : \A r \in zone_order :
        f # <<>> => ZoneNumbers(r) = SelectSeq(f, ValidZone)

C19_Witness ==
    /\ arg_forced_orders = Some(<<4, 9, 2>>)
    /\ arg_pressures = <<[part |-> "sacrum", pressure |-> 90],
                         [part |-> "left_heel", pressure |-> 50]>>
    /\ \E r \in zone_order : ZoneNumbers(r) = <<4, 2>>

\* the scores of the body parts of zone z that count: known part, pressure above 0
PartScores(z) ==
    {Score6(arg_pressures[i].pressure, DictGet(arg_durations, arg_pressures[i].part, 0)) :
        i \in {k \in 1..Len(arg_pressures) :
                  /\ arg_pressures[k].part \in DOMAIN BODY_PART_TO_ZONE
                  /\ BODY_PART_TO_ZONE[arg_pressures[k].part] = z
                  /\ arg_pressures[k].pressure > 0}}

\* the score of zone z: the highest score of its body parts
ScoreOfZone(z) == CHOOSE m \in PartScores(z) : \A x \in PartScores(z) : x <= m

\* C20: without a forced order the zones come by score, highest first, and zones
\* of equal score come by zone number, lowest first (so the order of the items
\* of the pressure map does not matter).
C20_ScoreOrderTiesByZoneId ==
    \A r \in zone_order :
        (arg_forced_orders = None \/ arg_forced_orders = Some(<<>>))
            => \A i, j \in 1..Len(r) :
                   i < j => \/ ScoreOfZone(r[i].zone) > ScoreOfZone(r[j].zone)
                            \/ /\ ScoreOfZone(r[i].zone) = ScoreOfZone(r[j].zone)
                               /\ r[i].zone < r[j].zone

\* C21: the relief time is 5, plus 10 for a pressure above 80 or plus 5 for a
\* pressure above 50 and at most 80, plus 5 for a duration above 300 seconds;
\* it is one of 5, 10, 15 and 20.
C21_ReliefTimeSteps ==
    \A t \in rt_result :
        /\ t = 5 + (IF rt_pressure > 80 THEN 10
                    ELSE IF rt_pressure > 50 /\ rt_pressure <= 80 THEN 5 ELSE 0)
                 + (IF rt_duration > 300 THEN 5 ELSE 0)
        /\ t \in {5, 10, 15, 20}

C21_Witness ==
    /\ rt_pressure = 81
    /\ rt_duration = 301
    /\ rt_result = Some(20)

(***************************************************************************)
(* Claims about the zone numbers that reach the device (SpecZoneIds)       *)
(***************************************************************************)
\* C22: every zone of a list the facade hands to send_sequence and every zone of
\* a command the executor issues lies in 1..4.
C22_ZoneIdsInRange ==
    /\ h_last.sent => \A plan \in h_last.plan : \A k \in 1..Len(plan) : plan[k] \in 1..4
    /\ \A s \in issued : \A k \in 1..Len(s.cmds) : s.cmds[k].zone \in 1..4

\* the run of the sequence 9, 3 has skipped zone 9 and holds zone 3
C22_Witness ==
    /\ issued = Some([run |-> 1, at |-> "loop", held |-> 0,
                      cmds |-> << [zone |-> 3, action |-> "inflate"] >>,
                      oks |-> <<TRUE>>])
    /\ run_pc[1] = "hold"
    /\ run_rest[1] = <<3>>

(***************************************************************************)
(* Further claims about ServiceFacade (checked under SpecFacade)           *)
(***************************************************************************)
\* C23: once shutdown() has issued its emergency stop, the sensor data task is
\* no longer running: the loop was stopped before the stop was issued.  (The
\* code issues the emergency stop first and cancels the task after it.)
C23_LoopStoppedBeforeEstop ==
    (\E k \in 1..Len(shutdown_log) : shutdown_log[k] = "serial.emergency_stop")
        => sensor_task # "running"

\* a step of handle_control_packet
PacketStep == packets_handled' = packets_handled + 1

\* C24: after activation went from true to false and back to true, the first
\* packet with a non-empty plan is sent, also when its order is the order that
\* was applied last before the deactivation.
C24_SentAfterReactivation == h_cycle.first => h_last.sent

C24_Witness ==
    /\ h_cycle.first /\ h_last.sent /\ h_last.ok
    /\ h_cycle.prior = h_last.plan
    /\ last_zone_sequence = h_cycle.prior

\* C25: a send_sequence that reports failure adds one to the error counter and
\* leaves the executed-command counter and the last applied order as they were,
\* and the next packet, if it has the same order, is sent again.
C25_FailedSendNotRemembered ==
    [][ /\ (PacketStep /\ h_last'.sent /\ ~h_last'.ok)
              => /\ errors_count' = errors_count + 1
                 /\ commands_executed' = commands_executed
                 /\ last_zone_sequence' = last_zone_sequence
        /\ (PacketStep /\ h_cycle'.retry)
              => (h_last'.sent /\ seq_calls' = seq_calls + 1) ]_vars

C25_Witness ==
    /\ h_cycle.retry /\ h_last.sent /\ h_last.ok
    /\ errors_count = 1 /\ commands_executed = 1 /\ seq_calls = 2
    /\ last_zone_sequence = h_last.plan

\* C27: a packet with activate = false that arrives while activation is false
\* calls neither the emergency stop nor send_sequence and leaves activation, the
\* last applied order and both counters as they were.
C27_IdlePacketChangesNothing ==
    [][ (PacketStep /\ ~air_activated /\ \A p \in last_packet' : ~p.activate_air)
            => /\ estop_calls' = estop_calls
               /\ seq_calls' = seq_calls
               /\ UNCHANGED <<air_activated, last_zone_sequence, commands_executed,
                              errors_count>> ]_vars

C27_Witness ==
    /\ h_cycle.branch = "idle" /\ ~air_activated
    /\ commands_executed = 1 /\ estop_calls = 1 /\ packets_handled = 3

(***************************************************************************)
(* Claim about all operations of ServiceFacade (checked under SpecOps)     *)
(***************************************************************************)
\* C26: after a packet was handled the activation state is that packet's activate
\* field, and no step other than the handling of a packet (the sensor data loop,
\* the status snapshot, handle_control_signal, initialize, shutdown) changes it.
C26_ActivationFollowsPacket ==
    [][ /\ PacketStep => \A p \in last_packet' : air_activated' = p.activate_air
        /\ ~PacketStep => air_activated' = air_activated ]_vars

\* activation is on after a packet, and a signal was handled and the loop has
\* polled a published value since
C26_Witness ==
    /\ air_activated /\ \E p \in last_packet : p.activate_air
    /\ signals_handled = 1 /\ commands_executed = 2
    /\ last_call.op = "get_sensor_data" /\ last_call.ret # None

(***************************************************************************)
(* Claim about the forwarding of telemetry (checked under SpecTelemetry)   *)
(***************************************************************************)
\* the value is in the telemetry queue
Unread(id) == \E k \in 1..Len(tele_ids) : tele_ids[k] = id

\* is_connected() of the channel holds and the installed writer belongs to a
\* connection that neither side has closed
PeerConnected ==
    m_connected /\ \E w \in client_writer : ~writer_closed[w] /\ ~peer_closed[w]

Pushed(id) == \E k \in 1..Len(pushes) : pushes[k].id = id

\* C30: a published value that is unread while a peer is connected is in the end
\* pushed by the loop, unless a newer value took its place or the peer is gone;
\* and no value is pushed twice.
C30_TelemetryForwarded ==
    /\ \A id \in 1..MaxTelemetry :
           (Unread(id) /\ PeerConnected)
               ~> (Pushed(id) \/ id \in tele_dropped \/ ~PeerConnected)
    /\ [](\A i, j \in 1..Len(pushes) : i # j => pushes[i].id # pushes[j].id)

\* value 1 was replaced by value 2 before the loop polled, value 2 was pushed to
\* the connected peer
C30_Witness ==
    /\ PeerConnected
    /\ tele_dropped = {1}
    /\ pushes = << [id |-> 2, to |-> client_writer] >>

(***************************************************************************)
(* Claims about the buffers of SerialDevice (checked under SpecSerial)     *)
(***************************************************************************)
\* C28: the buffer of device log lines has a fixed capacity and drops its oldest
\* line when a line arrives at a full buffer, so it never holds all of the
\* MaxPending lines the device can send between two reads.  (The code's
\* _log_queue is a Queue() without maxsize and the reader only ever puts.)
C28_LogBufferBounded == Len(log_queue) < MaxPending

\* C29: at most one unread telemetry value is retained: a value published while
\* one is unread replaces it.  (The code's _sensor_data_queue is a Queue()
\* without maxsize; the reader appends and get_sensor_data drains.)
C29_OneUnreadTelemetry == Len(sensor_data_queue) <= 1

(***************************************************************************)
(* Claims about the zones determine_zone_order emits (SpecPriority)        *)
(***************************************************************************)

\* the zones that have a body part with a pressure above 0 in the pressure map
PressedZones ==
    {BODY_PART_TO_ZONE[arg_pressures[k].part] :
        k \in {i \in 1..Len(arg_pressures) :
                  /\ arg_pressures[i].part \in DOMAIN BODY_PART_TO_ZONE
                  /\ arg_pressures[i].pressure > 0}}

\* C35: without a forced order the zones of the result are exactly the zones
\* that have a body part with a pressure above 0, each of them is there once,
\* and no entry has a relief time below 5 seconds.
C35_PressedZonesOnceEach ==
    \A r \in zone_order :
        (arg_forced_orders = None \/ arg_forced_orders = Some(<<>>))
            => /\ {r[k].zone : k \in 1..Len(r)} = PressedZones
               /\ \A i, j \in 1..Len(r) : r[i].zone = r[j].zone => i = j
               /\ \A k \in 1..Len(r) : r[k].relief >= 5

\* two pressed parts of one zone and a part without pressure: one entry
C35_Witness ==
    /\ arg_forced_orders = None
    /\ \E i, j, k \in 1..Len(arg_pressures) :
          /\ i # j
          /\ arg_pressures[i].part \in DOMAIN BODY_PART_TO_ZONE
          /\ arg_pressures[j].part \in DOMAIN BODY_PART_TO_ZONE
          /\ BODY_PART_TO_ZONE[arg_pressures[i].part] = BODY_PART_TO_ZONE[arg_pressures[j].part]
          /\ arg_pressures[i].pressure > 0
          /\ arg_pressures[j].pressure > 0
          /\ arg_pressures[k].part \in DOMAIN BODY_PART_TO_ZONE
          /\ arg_pressures[k].pressure = 0
          /\ BODY_PART_TO_ZONE[arg_pressures[k].part] \notin PressedZones
    /\ \E r \in zone_order : Len(r) = 1 /\ r[1].relief >= 5

(***************************************************************************)
(* Claims about the order of the commands of one run (SpecExec)            *)
(***************************************************************************)

\* every send_command call of the step s returned True
AllSent(s) == \A k \in 1..Len(s.oks) : s.oks[k]

\* rest is what is left of list when the entries that are no device zone are
\* passed over up to the first entry that is one, or up to the end
SkippedTo(list, rest) ==
    \E n \in 0..Len(list) :
        /\ rest = SubSeq(list, n + 1, Len(list))
        /\ \A k \in 1..n : ~ValidZone(list[k])

\* C33: in a run that is not cancelled and whose sends succeed the entries are
\* taken in list order (entries that name no device zone are passed over): a turn
\* of the loop sends one inflate, for the next entry, and the run then holds that
\* zone; the hold ends with the deflate of the held zone; the run sends an inflate
\* only when it holds no zone, and it leaves a hold only by the step that sends
\* the deflate of the held zone.
C33_InflateThenDeflateInOrder ==
    [][ /\ \A s \in issued' :
              AllSent(s) =>
                 LET r == s.run
                     before == IF run_pc[r] = "transition" THEN Tail(run_rest[r])
                               ELSE run_rest[r]
                 IN  /\ s.at = "loop" =>
                           /\ run_pc[r] # "hold"
                           /\ run_pc'[r] = "hold" =>
                                 /\ s.cmds = << [zone |-> Head(run_rest'[r]),
                                                 action |-> "inflate"] >>
                                 /\ run_pc[r] # "unused" => SkippedTo(before, run_rest'[r])
                           /\ run_pc'[r] # "hold" =>
                                 /\ s.cmds = <<>>
                                 /\ (run_pc[r] = "transition" /\ ex_running)
                                       => \A k \in 1..Len(before) : ~ValidZone(before[k])
                     /\ s.at = "hold_end" =>
                           /\ run_pc[r] = "hold"
                           /\ s.cmds = << [zone |-> Head(run_rest[r]), action |-> "deflate"] >>
        /\ \A r \in Runs :
              (run_pc[r] = "hold" /\ run_pc'[r] # "hold")
                 => \E s \in issued' :
                       /\ s.run = r
                       /\ s.cmds = << [zone |-> Head(run_rest[r]), action |-> "deflate"] >>
      ]_vars

\* the only run, on the list 1, 2, has deflated zone 1 and now holds zone 2
C33_Witness ==
    /\ next_run = 2
    /\ stop_pc = "idle"
    /\ ~cancel_req[1]
    /\ issued = Some([run |-> 1, at |-> "loop", held |-> 0,
                      cmds |-> << [zone |-> 2, action |-> "inflate"] >>,
                      oks |-> <<TRUE>>])
    /\ run_pc[1] = "hold"
    /\ run_rest[1] = <<2>>
    /\ zone_states[1] = 0
    /\ zone_states[2] = 1

(***************************************************************************)
(* Claims about the reader thread of a SerialDevice (SpecSerial)           *)
(***************************************************************************)

\* C34: at most one reader thread is at work for a SerialDevice at any time: while
\* the stop event is clear, at most one thread runs _reader_loop.  (connect()
\* clears the event and starts a thread without looking for an earlier one, so
\* a second connect() leaves two threads reading the port.)
C34_AtMostOneReader == ~stop_reader => reader_threads <= 1

\* C36: the response a send takes from the response queue is a reply to its own
\* command: it was not yet in the queue when the send wrote the command.  (The
\* queue is not emptied before the write, so a reply that comes after a send
\* has timed out stays queued and is taken at once by the next send.)
C36_ConsumedResponseIsReply ==
    [][ \A c \in Callers :
           (send_pc[c] = "waiting" /\ send_pc'[c] = "idle" /\ response_queue' # response_queue)
              => queued_at_write = 0 ]_vars

\* C38: while is_connected() is true a reader thread is running: a reader that
\* ended on a serial read error leaves a device that no longer reports connected.
\* (The thread only sets its stop event and ends; _connected stays True and the
\* port stays open.)
C38_ConnectedHasReader == is_connected => reader_threads > 0

\* C39: every line the reader thread reads is put on one of its three queues
\* (telemetry, log, response): none is lost.  (A ZONES: line with an item that
\* is no number raises ValueError in int(); the handler for Exception logs it
\* and the loop goes on with the next line.)
C39_NoLineLost == lines_lost = 0

(***************************************************************************)
(* Claims about a connection that was replaced (SpecChannel)               *)
(***************************************************************************)

\* C37: when b has replaced a and is the active peer, the end of a's handler
\* leaves the channel connected as long as b stays the active peer, and a's read
\* loop never waits on b's reader.  (The loop of a reads self._client_reader
\* anew on every turn, and the finally clause of every handler clears
\* _connected.)
C37_ReplacedHandlerLeavesPeer ==
    [][ \A ab \in Replaced :
           /\ (/\ conn_pc[ab[1]] # "ended"
               /\ conn_pc'[ab[1]] = "ended"
               /\ ActivePeer(ab[2]) /\ ActivePeer(ab[2])'
               /\ m_connected)
                  => m_connected'
           /\ reading_on'[ab[1]] # Some(ab[2]) ]_vars

\* C40: the ACK for a line is written to no other connection than the one the
\* line was read from.  (send_ack writes to self._client_writer, which is the
\* writer of the connection installed last.)
C40_AckToTheSender == line_op.ack_to \subseteq {line_op.by}

(***************************************************************************)
(* Claim about initialize() with a serial port that does not open (SpecOps)*)
(***************************************************************************)

\* connect() has just returned False inside initialize()
ConnectFailedInInitialize ==
    /\ facade_pc = "constructed"
    /\ last_call' = [op |-> "connect", outcome |-> "open_failed", ret |-> FALSE]

\* C32: when connect() fails in initialize(), initialize() runs to its end with
\* the listener and the telemetry loop started and a status snapshot that shows
\* the serial link as not connected; while the facade then runs, listener and
\* loop stay and the snapshot stays so, and a packet is handled as always: the
\* activation follows the packet and a plan that is sent counts as failed.
C32_InitializeWithoutSerial ==
    [][ /\ ConnectFailedInInitialize
           => /\ facade_pc' = "running"
              /\ m_running'
              /\ sensor_task' = "running"
              /\ ~SystemStatus'.serial_connection
        /\ (facade_pc = "running" /\ facade_pc' = "running" /\ ~is_connected)
           => /\ m_running'
              /\ sensor_task' = "running"
              /\ ~SystemStatus'.serial_connection
        /\ (PacketStep /\ facade_pc = "running" /\ ~is_connected)
           => /\ \A p \in last_packet' : air_activated' = p.activate_air
              /\ h_last'.sent => ~h_last'.ok ]_vars

\* after a failed connect() the listener and the telemetry loop run, and a packet
\* was handled whose plan was sent without success
C32_Witness ==
    /\ facade_pc = "running"
    /\ error_message = Some(<<"open failed">>)
    /\ ~SystemStatus.serial_connection
    /\ m_running /\ sensor_task = "running"
    /\ packets_handled > 0 /\ air_activated
    /\ h_last.sent /\ ~h_last.ok

(***************************************************************************)
(* Claim about the end of shutdown() (checked under SpecShutdown)          *)
(***************************************************************************)

\* C31: shutdown(), once begun, comes to its end whatever the peer does: none of
\* its calls waits for the peer.  (stop() awaits wait_closed() of the installed
\* writer without a timeout; with output in the transport that the peer does
\* not read, that wait ends only when the peer reads or closes.)
C31_ShutdownCompletes == (facade_pc = "shutdown") ~> (facade_pc = "stopped")

=============================================================================
